---- MODULE Spec2Model ----
(***************************************************************************)
(* AI Engine process supervisor (src-tauri/src/ai_engine).                 *)
(*                                                                         *)
(* Specifications over one set of variables:                               *)
(*   SpecChan / FairSpecChan : one IPCChannel instance (communication.rs): *)
(*       the pending-request table, the outbound queue, the reader and     *)
(*       writer tasks, the callers of send_request and the child process.  *)
(*   SpecTerm : the same with send_notification and terminate().           *)
(*   SpecSup / FairSpecSup   : the AIEngineManager (manager.rs): start(),  *)
(*       stop(), the restart-monitoring loops, the health monitor and the  *)
(*       status feed, over the process handles of the channels it builds.  *)
(*   SpecOne, SpecStop / FairSpecStop, SpecSend : the manager for clients  *)
(*       that call start() once, several times, or send requests.          *)
(*   SpecBackoff : the backoff delay of the restart loop.                  *)
(*   SpecLines : the channel with a child that also writes lines that      *)
(*       are no responses.                                                 *)
(*   SpecFeed / FairSpecFeed : the manager as the Tauri commands drive it, *)
(*       with the holders of its status receiver.                          *)
(*   SpecHealth, SpecMonitor : one HealthMonitor (health.rs) on a channel. *)
(*   SpecValidate : start() on configurations around validate()'s limits.  *)
(*   SpecWriter / FairSpecWriter : the channel's writer task.              *)
(*   SpecCycles : the channels of successive spawns, with their tables.    *)
(*   SpecReady : start() with wait_for_ready's polls.                      *)
(*   FairSpecOne : SpecOne with every task scheduled.                      *)
(* Each action is the code between two await points of one task.           *)
(***************************************************************************)
EXTENDS Integers, Sequences, FiniteSets, TLC

\* ---------------------------------------------------------------- bounds
MaxCalls == 2
MaxLines == 2
MaxStarts == 2       \* calls of start() that pass validation
MaxStops == 1        \* calls of stop()
MaxTicks == 1        \* ticks of the health monitor
MaxCfgAttempts == 1  \* largest max_restart_attempts of a configuration
MaxSessions == 3     \* calls of start() that pass validation, in SpecStop
MaxNotes == 1        \* calls of send_notification
MaxSends == 1        \* calls of the manager's send_request and send_notification
MaxRuns == 1         \* calls of start() that pass validation, in SpecOne
MaxBackoffAttempts == 3 \* largest max_restart_attempts, in SpecBackoff
MaxSubs == 2         \* holders of the status receiver
MaxReads == 2        \* events the holders take off the status feed
MaxMonStarts == 2    \* calls of HealthMonitor::start
MaxUnread == 1       \* response lines written by the workers and not yet read

\* ------------------------------------------------------------- constants
Calls == 1..MaxCalls
\* The identifiers Uuid::new_v4() can return.
Ids == 1..MaxCalls
\* No entry / no caller / no response.
NoCall == 0
NoResp == 0
\* The id of a response line that answers no request of this channel.
GarbageId == 0
\* A notification in the outbound queue (a message without an id).
Notification == -1
\* Lines of the child's output that are no response with an id: a line that
\* is empty once trimmed; a line of text that is no JSON-RPC response with a
\* string or number id (a notification, a request, anything else); a line
\* whose bytes are not UTF-8.
EmptyLine == -2
OtherLine == -3
BadUtf8Line == -4

VARIABLES
    \* ---- IPCChannel (communication.rs:16-34)
    process,          \* Option<Child>: "None" | "Some"
    stdin_writer,     \* Option<ChildStdin>: TRUE = Some
    pending_requests, \* HashMap id -> oneshot sender, named by the call that owns the receiver
    message_queue,    \* messages sent on message_sender, not yet received by the writer task
    receiver_alive,   \* the receiving half of message_sender has not been dropped
    writer_task,      \* "none" | "running" | "done"
    reader_task,      \* "none" | "running" | "done"
    \* ---- the child process
    child_alive,      \* the OS process is running
    child_stdout,     \* lines written by the child, not yet read by the reader task
    child_seen,       \* request ids written to the child's stdin
    lines_out,        \* number of lines the child has written
    \* ---- callers of send_request
    call_state,       \* "idle" | "registered" | "waiting" | "expired" | "closed" | "done"
    req_id,           \* the id generated at line 187
    slot,             \* the oneshot receiver's value: the id of the delivered response
    outcome,          \* "none" | "Response" | "TimeoutError" | "CommunicationError"
    \* ---- history of the run (not read by any action guard)
    delivered,        \* id -> number of successful sender.send(response)
    removed,          \* id -> number of pending.remove(&id) that found an entry
    orphaned,         \* ids of responses for which the reader found no entry
    send_failed,      \* ids whose entry the reader removed but whose receiver was gone
    pending_at_eof,   \* calls that were pending when the reader task saw end-of-input
    inflight_at_expiry, \* call -> the calls that were pending when its timeout cleanup ran
    \* ---- terminate() and send_notification
    term_pc,          \* the caller of terminate(): "idle" | "grace" | "clear" | "done"
    notes_sent,       \* calls of send_notification made by clients
    notify_result,    \* what the last send_notification of a client returned
    after_terminate   \* history: the calls of send_request begun after terminate() returned

chanVars == <<process, stdin_writer, pending_requests, message_queue, receiver_alive,
              writer_task, reader_task, child_alive, child_stdout, child_seen, lines_out,
              call_state, req_id, slot, outcome, delivered, removed, orphaned,
              send_failed, pending_at_eof, inflight_at_expiry,
              term_pc, notes_sent, notify_result, after_terminate>>

VARIABLES
    \* ---- AIEngineManager (manager.rs:19-43)
    status,             \* the status cell: "Stopped" | "Starting" | "Ready" | "Error"
    status_feed,        \* every AIStatusUpdate sent on status_sender: <<status, message, n>>
    restart_attempts,   \* the restart counter
    shutdown_requested, \* the shutdown flag
    ipc_channel,        \* the channel the manager holds: 0 is IPCChannel::new() of new()
    health_monitor,     \* 0 = None, else the channel the monitor's task probes
    max_restart_attempts, \* config.max_restart_attempts
    \* ---- the channels built by spawn_ai_process, as the manager sees them
    chan_process,       \* channel -> Option<Child>: "None" | "Some"
    process_lock,       \* channel -> "free" | "terminate": who holds process.lock()
    worker_alive,       \* channel -> the worker spawned for it is running
    nspawn,             \* processes spawned so far
    \* ---- the tasks
    api_pc,             \* where the caller of start()/stop() (&mut self) is
    api_err,            \* the error spawn_ai_process returned to start()
    last_result,        \* what the last start() returned
    loop_pc,            \* restart loop -> "none" | "sleep" | "probe" | "count" | "backoff" | "exited" | "gaveup"
    loop_chan,          \* restart loop -> the channel it captured
    loop_cur,           \* restart loop -> its current_attempts
    last_health,        \* HealthMonitor::last_result: "None" | "healthy" | "unhealthy"
    \* ---- bounds on the environment
    start_calls, stop_calls, health_ticks, send_calls,
    \* ---- the manager's send_request / send_notification
    last_send,          \* the last call: its kind, whether it left an entry in the
                        \* pending table, whether its message was queued, its result
    \* ---- the backoff of the restart loop (durations in milliseconds)
    restart_delay_base, \* config.restart_delay_base
    max_restart_delay,  \* config.max_restart_delay
    backoff_attempt,    \* current_attempts of the last backoff computed, 0 = none
    backoff_delay,      \* the duration the loop then sleeps
    \* ---- history of the run (not read by any action guard)
    gave_up,            \* a restart loop gave up and start() was not called since
    stopped_gracefully  \* channels whose running worker terminate() took

mgrVars == <<status, status_feed, restart_attempts, shutdown_requested, ipc_channel,
             health_monitor, max_restart_attempts, chan_process, process_lock,
             worker_alive, nspawn, api_pc, api_err, last_result, loop_pc, loop_chan,
             loop_cur, last_health, start_calls, stop_calls, health_ticks, gave_up,
             stopped_gracefully, send_calls, last_send,
             restart_delay_base, max_restart_delay, backoff_attempt, backoff_delay>>

VARIABLES
    \* ---- the holders of get_status_receiver() (manager.rs:129-132)
    feed_read,          \* events that recv() on the status receiver has returned
    sub_got             \* holder -> the events it received, by their place on the feed

feedVars == <<feed_read, sub_got>>

VARIABLES
    \* ---- HealthMonitor (health.rs:13-31) on the channel of SpecChan
    task_handle,        \* Option<JoinHandle>: 0 = None, else the task spawned by start()
    status_callback,    \* Option<callback>: TRUE = Some
    mon_pc,             \* task -> "none" | "tick" | "ping" | "store" | "aborted"
    mon_call,           \* task -> the call of send_request its ping makes, NoCall = none
    mon_result,         \* task -> the result of perform_health_check in this tick
    mon_starts,         \* calls of start() on the monitor
    \* ---- history of the run (not read by any action guard)
    tick_log,           \* the results of the completed ticks
    callback_log        \* per callback invocation: <<the result passed, last_result then>>

monVars == <<task_handle, status_callback, mon_pc, mon_call, mon_result, mon_starts,
             tick_log, callback_log>>

VARIABLES
    \* ---- AIEngineConfig (config.rs:11-47), durations in milliseconds
    startup_timeout,
    health_check_interval,
    health_check_timeout

confVars == <<startup_timeout, health_check_interval, health_check_timeout>>

VARIABLES
    \* ---- the IPCChannel instances built by spawn_ai_process, manager.rs:215-217
    chan_pending,       \* channel -> its pending_requests: id -> request, NoCall = none
    chan_stdout,        \* channel -> the response lines <<id, body>> of its worker, unread
    requests            \* request -> the channel it was made on, its id, its state, the
                        \* body of its response, the channel whose reader delivered it,
                        \* and (history) whether the reader of another channel read a
                        \* line with its id while it waited

cycVars == <<chan_pending, chan_stdout, requests>>

supVars == <<mgrVars, feedVars, monVars, confVars, cycVars>>

vars == <<chanVars, supVars>>

\* --------------------------------------------------------------- helpers
UsedIds == {req_id[c] : c \in Calls} \ {0}

\* Uuid::new_v4(): an identifier that was not generated before. Identifiers are
\* interchangeable, so the least unused one stands for any of them.
NewIdsReused(used) == Ids
NewIds(used) == {i \in Ids \ used : \A j \in Ids \ used : i <= j}

\* The call whose sender the table holds under id, NoCall when there is none.
Owner(tbl, id) == IF id \in DOMAIN tbl THEN tbl[id] ELSE NoCall

\* pending.remove(&id) of the reader task: the sender stored under the response's id.
ReaderLookupAny(tbl, id) ==
    IF \E i \in DOMAIN tbl : tbl[i] # NoCall
    THEN tbl[CHOOSE i \in DOMAIN tbl : tbl[i] # NoCall] ELSE NoCall
ReaderLookup(tbl, id) == Owner(tbl, id)

RemoveKey(tbl, id) == IF id \in DOMAIN tbl THEN [tbl EXCEPT ![id] = NoCall] ELSE tbl

\* pending.remove(&id) of the timeout branch of send_request.
TimeoutRemoveSkipped(tbl, id) == tbl
TimeoutRemoveAll(tbl, id) == [i \in DOMAIN tbl |-> NoCall]
TimeoutRemove(tbl, id) == RemoveKey(tbl, id)

\* The oneshot receiver of call c exists from line 191 until the await at 204 ends.
ReceiverAlive(c) == call_state[c] \in {"registered", "waiting"} /\ slot[c] = NoResp

\* The sender of call c was dropped without a send: it is neither in the table
\* nor was it used.
SenderDropped(c) == slot[c] = NoResp /\ Owner(pending_requests, req_id[c]) # c

\* Call c has an entry and no answer yet.
IsPending(c) ==
    /\ call_state[c] \in {"registered", "waiting"}
    /\ slot[c] = NoResp
    /\ Owner(pending_requests, req_id[c]) = c

\* timeout(timeout_duration, response_receiver): the timer runs for every wait.
TimeoutNotArmed(c) == FALSE
TimeoutArmed(c) == call_state[c] = "waiting"

\* ------------------------------------------------------------------ Init
InitChan ==
    /\ process = "None"
    /\ stdin_writer = FALSE
    /\ pending_requests = [i \in Ids |-> NoCall]
    /\ message_queue = <<>>
    /\ receiver_alive = FALSE
    /\ writer_task = "none"
    /\ reader_task = "none"
    /\ child_alive = FALSE
    /\ child_stdout = <<>>
    /\ child_seen = {}
    /\ lines_out = 0
    /\ call_state = [c \in Calls |-> "idle"]
    /\ req_id = [c \in Calls |-> 0]
    /\ slot = [c \in Calls |-> NoResp]
    /\ outcome = [c \in Calls |-> "none"]
    /\ delivered = [i \in Ids |-> 0]
    /\ removed = [i \in Ids |-> 0]
    /\ orphaned = {}
    /\ send_failed = {}
    /\ pending_at_eof = {}
    /\ inflight_at_expiry = [c \in Calls |-> {}]
    /\ term_pc = "idle"
    /\ notes_sent = 0
    /\ notify_result = "none"
    /\ after_terminate = {}

historyUnchanged == UNCHANGED <<delivered, removed, orphaned, send_failed,
                                pending_at_eof, inflight_at_expiry>>
childUnchanged == UNCHANGED <<child_alive, child_stdout, child_seen, lines_out>>
callsUnchanged == UNCHANGED <<call_state, req_id, slot, outcome>>
tasksUnchanged == UNCHANGED <<process, stdin_writer, writer_task, reader_task>>
termUnchanged == UNCHANGED <<term_pc, notes_sent, notify_result, after_terminate>>

\* --------------------------------------------------------------- actions
\* start_with_process: store the child and its stdin, spawn the reader and the
\* writer task; the writer task gets a new message channel.
StartWithProcess ==
    /\ process = "None" /\ writer_task = "none" /\ term_pc = "idle"
    /\ \A c \in Calls : call_state[c] \in {"idle", "done"}
    /\ process' = "Some"
    /\ stdin_writer' = TRUE
    /\ child_alive' = TRUE
    /\ reader_task' = "running"
    /\ writer_task' = "running"
    /\ receiver_alive' = TRUE
    /\ message_queue' = <<>>
    /\ UNCHANGED <<pending_requests, child_stdout, child_seen, lines_out>>
    /\ callsUnchanged /\ historyUnchanged
    /\ termUnchanged
    /\ UNCHANGED supVars

\* send_request, lines 187-197: generate the id, create the oneshot channel and
\* insert its sender under the id.
RegisterWithoutEntry(c) ==
    /\ call_state[c] = "idle"
    /\ \A d \in Calls : d < c => call_state[d] # "idle"
    /\ \E id \in NewIds(UsedIds) : req_id' = [req_id EXCEPT ![c] = id]
    /\ call_state' = [call_state EXCEPT ![c] = "registered"]
    /\ UNCHANGED <<pending_requests, message_queue, receiver_alive, slot, outcome>>
    /\ tasksUnchanged /\ childUnchanged /\ historyUnchanged
    /\ termUnchanged
    /\ UNCHANGED supVars
Register(c) ==
    /\ call_state[c] = "idle"
    /\ \A d \in Calls : d < c => call_state[d] # "idle"   \* callers are interchangeable
    /\ \E id \in NewIds(UsedIds) :
        /\ req_id' = [req_id EXCEPT ![c] = id]
        /\ pending_requests' = [pending_requests EXCEPT ![id] = c]
    /\ call_state' = [call_state EXCEPT ![c] = "registered"]
    /\ UNCHANGED <<message_queue, receiver_alive, slot, outcome>>
    /\ tasksUnchanged /\ childUnchanged /\ historyUnchanged
    /\ after_terminate' = IF term_pc = "done" THEN after_terminate \cup {c}
                                               ELSE after_terminate
    /\ UNCHANGED <<term_pc, notes_sent, notify_result>>
    /\ UNCHANGED supVars

\* send_request, lines 200-201: message_sender.send(message)?; a send on a
\* channel whose receiver was dropped is an error, returned at once.
Enqueue(c) ==
    /\ call_state[c] = "registered"
    /\ IF receiver_alive
       THEN /\ message_queue' = Append(message_queue, req_id[c])
            /\ call_state' = [call_state EXCEPT ![c] = "waiting"]
            /\ outcome' = outcome
       ELSE /\ message_queue' = message_queue
            /\ call_state' = [call_state EXCEPT ![c] = "done"]
            /\ outcome' = [outcome EXCEPT ![c] = "CommunicationError"]
    /\ UNCHANGED <<pending_requests, receiver_alive, req_id, slot>>
    /\ tasksUnchanged /\ childUnchanged /\ historyUnchanged
    /\ termUnchanged
    /\ UNCHANGED supVars

\* send_request, line 205: the await ends with the response.
ReceiveResponse(c) ==
    /\ call_state[c] = "waiting"
    /\ slot[c] # NoResp
    /\ call_state' = [call_state EXCEPT ![c] = "done"]
    /\ outcome' = [outcome EXCEPT ![c] = "Response"]
    /\ UNCHANGED <<pending_requests, message_queue, receiver_alive, req_id, slot>>
    /\ tasksUnchanged /\ childUnchanged /\ historyUnchanged
    /\ termUnchanged
    /\ UNCHANGED supVars

\* send_request, lines 204, 206, 212: the await ends without a response: the
\* sender was dropped (206) or the timer elapsed (212). The receiver is dropped.
AwaitEnds(c) ==
    /\ call_state[c] = "waiting"
    /\ slot[c] = NoResp
    /\ TimeoutArmed(c) \/ SenderDropped(c)
    /\ call_state' = [call_state EXCEPT
            ![c] = IF SenderDropped(c) THEN "closed" ELSE "expired"]
    /\ UNCHANGED <<pending_requests, message_queue, receiver_alive, req_id, slot, outcome>>
    /\ tasksUnchanged /\ childUnchanged /\ historyUnchanged
    /\ termUnchanged
    /\ UNCHANGED supVars

\* send_request, lines 207-210 and 213-216: take the write lock, remove the id
\* and return the error.
Cleanup(c) ==
    /\ call_state[c] \in {"expired", "closed"}
    /\ pending_requests' = TimeoutRemove(pending_requests, req_id[c])
    /\ removed' = [i \in Ids |->
            IF pending_requests[i] # NoCall /\ pending_requests'[i] = NoCall
            THEN removed[i] + 1 ELSE removed[i]]
    /\ inflight_at_expiry' = [inflight_at_expiry EXCEPT
            ![c] = {d \in Calls \ {c} : IsPending(d)}]
    /\ outcome' = [outcome EXCEPT
            ![c] = IF call_state[c] = "closed" THEN "CommunicationError" ELSE "TimeoutError"]
    /\ call_state' = [call_state EXCEPT ![c] = "done"]
    /\ UNCHANGED <<message_queue, receiver_alive, req_id, slot,
                   delivered, orphaned, send_failed, pending_at_eof>>
    /\ tasksUnchanged /\ childUnchanged
    /\ termUnchanged
    /\ UNCHANGED supVars

\* Writer task, line 150: receiver.recv() returns the oldest message queued.
NextMessageNewest(queue) == queue[Len(queue)]
NextMessage(queue) == Head(queue)

\* Writer task, lines 150-176: receive one message; write and flush it, or end
\* the task (dropping the receiver and what is still queued) when the writer
\* handle is gone or the write fails. A write to an exited child fails.
WriterStep ==
    /\ writer_task = "running"
    /\ message_queue # <<>>
    /\ IF stdin_writer /\ child_alive
       THEN /\ child_seen' = child_seen \cup ({NextMessage(message_queue)} \cap Ids)
            /\ message_queue' = Tail(message_queue)
            /\ UNCHANGED <<writer_task, receiver_alive>>
       ELSE /\ writer_task' = "done"
            /\ receiver_alive' = FALSE
            /\ message_queue' = <<>>
            /\ child_seen' = child_seen
    /\ UNCHANGED <<process, stdin_writer, reader_task, pending_requests,
                   child_alive, child_stdout, lines_out>>
    /\ callsUnchanged /\ historyUnchanged
    /\ termUnchanged
    /\ UNCHANGED supVars

\* The child answers a request it has read, any number of times, or writes a
\* response with an id of its own.
ChildRespond(id) ==
    /\ child_alive
    /\ lines_out < MaxLines
    /\ id \in child_seen \cup {GarbageId}
    /\ child_stdout' = Append(child_stdout, id)
    /\ lines_out' = lines_out + 1
    /\ UNCHANGED <<child_alive, child_seen, pending_requests, message_queue, receiver_alive>>
    /\ tasksUnchanged /\ callsUnchanged /\ historyUnchanged
    /\ termUnchanged
    /\ UNCHANGED supVars

\* The child exits (crash, or killed from outside).
ChildExit ==
    /\ child_alive
    /\ child_alive' = FALSE
    /\ UNCHANGED <<child_stdout, child_seen, lines_out, pending_requests,
                   message_queue, receiver_alive>>
    /\ tasksUnchanged /\ callsUnchanged /\ historyUnchanged
    /\ termUnchanged
    /\ UNCHANGED supVars

\* Reader task, lines 92-118: one response line. Remove the entry of its id and
\* send the response through the sender found there.
ReaderStep ==
    /\ reader_task = "running"
    /\ child_stdout # <<>>
    /\ Head(child_stdout) \in Ids \cup {GarbageId}
    /\ LET id == Head(child_stdout)
           c  == ReaderLookup(pending_requests, id)
       IN  /\ child_stdout' = Tail(child_stdout)
           /\ pending_requests' = IF c # NoCall THEN RemoveKey(pending_requests, id)
                                  ELSE pending_requests
           /\ removed' = IF c # NoCall /\ id \in Ids /\ pending_requests[id] # NoCall
                         THEN [removed EXCEPT ![id] = @ + 1] ELSE removed
           /\ IF c # NoCall /\ ReceiverAlive(c)
              THEN /\ slot' = [slot EXCEPT ![c] = id]
                   /\ delivered' = [delivered EXCEPT ![id] = @ + 1]
                   /\ UNCHANGED <<orphaned, send_failed>>
              ELSE /\ slot' = slot
                   /\ delivered' = delivered
                   /\ orphaned' = IF c = NoCall THEN orphaned \cup {id} ELSE orphaned
                   /\ send_failed' = IF c # NoCall THEN send_failed \cup {id}
                                     ELSE send_failed
    /\ UNCHANGED <<message_queue, receiver_alive, child_alive, child_seen, lines_out,
                   call_state, req_id, outcome, pending_at_eof, inflight_at_expiry>>
    /\ tasksUnchanged
    /\ termUnchanged
    /\ UNCHANGED supVars

\* Reader task, lines 88-91: read_line returns Ok(0), the task ends.
ReaderEof ==
    /\ reader_task = "running"
    /\ child_stdout = <<>>
    /\ ~child_alive
    /\ reader_task' = "done"
    /\ pending_at_eof' = {c \in Calls : IsPending(c)}
    /\ UNCHANGED <<process, stdin_writer, writer_task, pending_requests, message_queue,
                   receiver_alive, delivered, removed, orphaned, send_failed,
                   inflight_at_expiry>>
    /\ childUnchanged /\ callsUnchanged
    /\ termUnchanged
    /\ UNCHANGED supVars

\* The child writes a line that is no response with an id.
ChildWrite(line) ==
    /\ child_alive
    /\ lines_out < MaxLines
    /\ line \in {EmptyLine, OtherLine, BadUtf8Line}
    /\ child_stdout' = Append(child_stdout, line)
    /\ lines_out' = lines_out + 1
    /\ UNCHANGED <<child_alive, child_seen, pending_requests, message_queue, receiver_alive>>
    /\ tasksUnchanged /\ callsUnchanged /\ historyUnchanged
    /\ termUnchanged
    /\ UNCHANGED supVars

\* Reader task, lines 93-97 and 119-130: an empty line is skipped; a line that
\* is no response with an id is logged.
ReaderSkip ==
    /\ reader_task = "running"
    /\ child_stdout # <<>>
    /\ Head(child_stdout) \in {EmptyLine, OtherLine}
    /\ child_stdout' = Tail(child_stdout)
    /\ UNCHANGED <<child_alive, child_seen, lines_out, pending_requests, message_queue,
                   receiver_alive>>
    /\ tasksUnchanged /\ callsUnchanged /\ historyUnchanged
    /\ termUnchanged
    /\ UNCHANGED supVars

\* Reader task, lines 87 and 131-134: read_line into a String fails on bytes
\* that are not UTF-8 (InvalidData); the Err arm logs and leaves the loop.
ReaderReadError ==
    /\ reader_task = "running"
    /\ child_stdout # <<>>
    /\ Head(child_stdout) = BadUtf8Line
    /\ child_stdout' = Tail(child_stdout)
    /\ reader_task' = "done"
    /\ UNCHANGED <<process, stdin_writer, writer_task, child_alive, child_seen, lines_out,
                   pending_requests, message_queue, receiver_alive>>
    /\ callsUnchanged /\ historyUnchanged
    /\ termUnchanged
    /\ UNCHANGED supVars

\* MessageSender::send: the message is queued while the receiving half exists.
SendAccepted == receiver_alive

\* send_notification, lines 222-233, called by a client of the channel.
SendNotification ==
    /\ notes_sent < MaxNotes
    /\ notes_sent' = notes_sent + 1
    /\ IF SendAccepted
       THEN /\ message_queue' = Append(message_queue, Notification)
            /\ notify_result' = "Ok"
       ELSE /\ message_queue' = message_queue
            /\ notify_result' = "CommunicationError"
    /\ UNCHANGED <<pending_requests, receiver_alive, term_pc, after_terminate>>
    /\ tasksUnchanged /\ childUnchanged /\ callsUnchanged /\ historyUnchanged
    /\ UNCHANGED supVars

\* terminate, lines 252-258: lock the process handle and take the child out of
\* it; with a child in hand, send the shutdown notification (its result is
\* dropped) and start the grace sleep.
TerminateTake ==
    /\ term_pc = "idle"
    /\ process' = "None"
    /\ IF process = "Some"
       THEN /\ term_pc' = "grace"
            /\ message_queue' = IF SendAccepted THEN Append(message_queue, Notification)
                                                ELSE message_queue
       ELSE /\ term_pc' = "clear"
            /\ message_queue' = message_queue
    /\ UNCHANGED <<stdin_writer, writer_task, reader_task, pending_requests, receiver_alive,
                   notes_sent, notify_result, after_terminate>>
    /\ childUnchanged /\ callsUnchanged /\ historyUnchanged
    /\ UNCHANGED supVars

\* terminate, lines 260-268: the grace sleep ends; kill the child and wait for
\* its exit.
TerminateKill ==
    /\ term_pc = "grace"
    /\ child_alive' = FALSE
    /\ term_pc' = "clear"
    /\ UNCHANGED <<child_stdout, child_seen, lines_out, pending_requests, message_queue,
                   receiver_alive, notes_sent, notify_result, after_terminate>>
    /\ tasksUnchanged /\ callsUnchanged /\ historyUnchanged
    /\ UNCHANGED supVars

\* terminate, lines 271-274: clear the writer handle and return Ok.
TerminateClear ==
    /\ term_pc = "clear"
    /\ stdin_writer' = FALSE
    /\ term_pc' = "done"
    /\ UNCHANGED <<process, writer_task, reader_task, pending_requests, message_queue,
                   receiver_alive, notes_sent, notify_result, after_terminate>>
    /\ childUnchanged /\ callsUnchanged /\ historyUnchanged
    /\ UNCHANGED supVars

NextChan ==
    \/ StartWithProcess
    \/ \E c \in Calls : Register(c)
    \/ \E c \in Calls : Enqueue(c)
    \/ \E c \in Calls : ReceiveResponse(c)
    \/ \E c \in Calls : AwaitEnds(c)
    \/ \E c \in Calls : Cleanup(c)
    \/ WriterStep
    \/ \E id \in Ids \cup {GarbageId} : ChildRespond(id)
    \/ ChildExit
    \/ ReaderStep
    \/ ReaderEof

\* The channel with its clients' notifications and a call of terminate().
NextTerm ==
    \/ StartWithProcess
    \/ \E c \in Calls : Register(c)
    \/ \E c \in Calls : Enqueue(c)
    \/ \E c \in Calls : ReceiveResponse(c)
    \/ \E c \in Calls : AwaitEnds(c)
    \/ \E c \in Calls : Cleanup(c)
    \/ WriterStep
    \/ \E id \in Ids \cup {GarbageId} : ChildRespond(id)
    \/ ChildExit
    \/ ReaderStep
    \/ ReaderEof
    \/ SendNotification
    \/ TerminateTake
    \/ TerminateKill
    \/ TerminateClear

\* The channel with its writer task: requests and notifications are queued,
\* the child may exit and terminate() be called; the window in which the
\* child writes nothing.
NextWriter ==
    \/ StartWithProcess
    \/ \E c \in Calls : Register(c)
    \/ \E c \in Calls : Enqueue(c)
    \/ \E c \in Calls : AwaitEnds(c)
    \/ \E c \in Calls : Cleanup(c)
    \/ WriterStep
    \/ ChildExit
    \/ SendNotification
    \/ TerminateTake
    \/ TerminateKill
    \/ TerminateClear

\* The channel with a child that also writes lines that are no responses.
NextLines ==
    \/ StartWithProcess
    \/ \E c \in Calls : Register(c)
    \/ \E c \in Calls : Enqueue(c)
    \/ \E c \in Calls : ReceiveResponse(c)
    \/ \E c \in Calls : AwaitEnds(c)
    \/ \E c \in Calls : Cleanup(c)
    \/ WriterStep
    \/ \E id \in Ids \cup {GarbageId} : ChildRespond(id)
    \/ \E line \in {EmptyLine, OtherLine, BadUtf8Line} : ChildWrite(line)
    \/ ChildExit
    \/ ReaderStep
    \/ ReaderSkip
    \/ ReaderReadError
    \/ ReaderEof

\* ============================================================ supervisor
\* Channels: 0 is the unbound channel of AIEngineManager::new, 1.. are built by
\* spawn_ai_process, one per spawn. Every successful start() spawns one loop.
Chans == 0..MaxSessions
Loops == 1..MaxSessions

\* The tasks HealthMonitor::start spawns, in the order of their spawning.
Tasks == 1..MaxMonStarts

\* HealthMonitor::new and set_status_callback: no task, no result; callbacks
\* says whether a callback is registered.
InitMon(callbacks) ==
    /\ task_handle = 0
    /\ status_callback \in callbacks
    /\ mon_pc = [t \in Tasks |-> "none"]
    /\ mon_call = [t \in Tasks |-> NoCall]
    /\ mon_result = [t \in Tasks |-> "none"]
    /\ mon_starts = 0
    /\ tick_log = <<>>
    /\ callback_log = <<>>

\* The tasks that hold a clone of the Arc returned by get_status_receiver().
Subs == 1..MaxSubs

\* AIStatusUpdate::new(status, message): the message is kept as its kind and
\* the attempt number it prints.
Update(st, kind, n) == <<st, kind, n>>

\* update_status, lines 368-376: store the status, then send the update.
UpdateStatusFeedOnly(st) ==
    /\ status' = status
    /\ status_feed' = Append(status_feed, Update(st, "none", 0))
UpdateStatus(st) ==
    /\ status' = st
    /\ status_feed' = Append(status_feed, Update(st, "none", 0))

\* is_process_running, lines 236-248, once the lock is held.
IsProcessRunning(ch) == chan_process[ch] = "Some" /\ worker_alive[ch]

LiveLoop(pc) == pc \in {"sleep", "probe", "count", "backoff"}

\* kill_on_drop (line 197): a channel that the manager, the monitor's task and
\* every running loop have let go is dropped, and its child with it.
KillDropped(alive, chanNow, monitorNow, pcNow, chanOfLoop) ==
    [ch \in Chans |->
        alive[ch] /\ \/ ch = chanNow
                     \/ ch = monitorNow
                     \/ \E l \in Loops : LiveLoop(pcNow[l]) /\ chanOfLoop[l] = ch]

\* Lines 333 and 283: the comparisons that decide between Restarting and Error.
LoopMayRestartOffByOne(cur) == cur <= max_restart_attempts + 1
LoopMayRestart(cur) == cur <= max_restart_attempts
HealthMayRestartInclusive(cur) == cur <= max_restart_attempts
HealthMayRestart(cur) == cur < max_restart_attempts

\* Default::default(), config.rs lines 60-61, in milliseconds.
DefaultDelayBase == 2000
DefaultMaxDelay == 60000

\* The configured backoff durations; no backoff computed yet.
InitBackoff(bases, caps) ==
    /\ restart_delay_base \in bases
    /\ max_restart_delay \in caps
    /\ backoff_attempt = 0
    /\ backoff_delay = 0

DefaultBackoff == InitBackoff({DefaultDelayBase}, {DefaultMaxDelay})

NoSend == [kind |-> "none", entry |-> FALSE, queued |-> FALSE, result |-> "none"]

\* No channel / no response body.
NoChan == -1
NoBody == "none"

NoRequest == [chan |-> NoChan, id |-> 0, state |-> "idle", got |-> NoBody, from |-> NoChan,
              stray |-> FALSE]

\* IPCChannel::new, communication.rs lines 38-51: every instance has a table
\* of its own, empty; no request was made.
InitCyc ==
    /\ chan_pending = [ch \in Chans |-> [i \in Ids |-> NoCall]]
    /\ chan_stdout = [ch \in Chans |-> <<>>]
    /\ requests = [r \in Calls |-> NoRequest]

InitMgr(maxes) ==
    /\ InitCyc
    /\ status = "Stopped"
    /\ status_feed = <<>>
    /\ restart_attempts = 0
    /\ shutdown_requested = FALSE
    /\ ipc_channel = 0
    /\ health_monitor = 0
    /\ max_restart_attempts \in maxes
    /\ chan_process = [ch \in Chans |-> "None"]
    /\ process_lock = [ch \in Chans |-> "free"]
    /\ worker_alive = [ch \in Chans |-> FALSE]
    /\ nspawn = 0
    /\ api_pc = "idle"
    /\ api_err = "none"
    /\ last_result = "none"
    /\ loop_pc = [l \in Loops |-> "none"]
    /\ loop_chan = [l \in Loops |-> 0]
    /\ loop_cur = [l \in Loops |-> 0]
    /\ last_health = "None"
    /\ start_calls = 0
    /\ stop_calls = 0
    /\ health_ticks = 0
    /\ send_calls = 0
    /\ last_send = NoSend
    /\ gave_up = FALSE
    /\ stopped_gracefully = {}
    /\ feed_read = 0
    /\ sub_got = [s \in Subs |-> <<>>]

\* Default::default(), config.rs lines 56-58, in milliseconds.
DefaultStartupTimeout == 30000
DefaultHealthInterval == 10000
DefaultHealthTimeout == 5000

InitTimeouts(startups, intervals, timeouts) ==
    /\ startup_timeout \in startups
    /\ health_check_interval \in intervals
    /\ health_check_timeout \in timeouts

DefaultTimeouts ==
    InitTimeouts({DefaultStartupTimeout}, {DefaultHealthInterval}, {DefaultHealthTimeout})

\* AIEngineManager::new; the monitor it builds in start_health_monitoring has
\* a callback.
InitSup(maxes) == InitMgr(maxes) /\ InitMon({TRUE}) /\ DefaultTimeouts

\* The configuration is immutable, and the manager's steps leave the channel
\* instance of SpecChan alone.
cfgUnchanged == UNCHANGED <<max_restart_attempts, chanVars, restart_delay_base,
                            max_restart_delay, backoff_attempt, backoff_delay, feedVars,
                            monVars, confVars, cycVars>>
chansUnchanged == UNCHANGED <<chan_process, process_lock, worker_alive, nspawn>>
loopsUnchanged == UNCHANGED <<loop_pc, loop_chan, loop_cur>>
boundsUnchanged == UNCHANGED <<start_calls, stop_calls, health_ticks>>
ghostUnchanged == UNCHANGED <<gave_up, stopped_gracefully>>
sendsUnchanged == UNCHANGED <<send_calls, last_send>>

\* ------------------------------------------------------------- start()
\* Lines 63-71: validate the configuration; when it is valid, announce Starting.
\* limit is the number of valid calls the client makes.
StartBeginAnnounceFirst(valid, limit) ==
    /\ api_pc = "idle"
    /\ start_calls < limit
    /\ start_calls' = start_calls + 1
    /\ UpdateStatus("Starting")
    /\ api_pc' = IF valid THEN "start_reset_attempts" ELSE "idle"
    /\ last_result' = IF valid THEN "none" ELSE "ConfigurationError"
    /\ gave_up' = FALSE
    /\ UNCHANGED <<restart_attempts, shutdown_requested, ipc_channel, health_monitor,
                   api_err, last_health, stop_calls, health_ticks, stopped_gracefully>>
    /\ cfgUnchanged /\ sendsUnchanged /\ chansUnchanged /\ loopsUnchanged
StartBegin(valid, limit) ==
    /\ api_pc = "idle"
    /\ IF valid
       THEN /\ start_calls < limit
            /\ start_calls' = start_calls + 1
            /\ UpdateStatus("Starting")
            /\ api_pc' = "start_reset_attempts"
            /\ gave_up' = FALSE
            /\ last_result' = "none"
       ELSE /\ last_result' = "ConfigurationError"
            /\ UNCHANGED <<status, status_feed, api_pc, gave_up, start_calls>>
    /\ UNCHANGED <<restart_attempts, shutdown_requested, ipc_channel, health_monitor,
                   api_err, last_health, stop_calls, health_ticks, stopped_gracefully>>
    /\ cfgUnchanged /\ sendsUnchanged /\ chansUnchanged /\ loopsUnchanged

\* Lines 73-74.
StartResetAttempts ==
    /\ api_pc = "start_reset_attempts"
    /\ restart_attempts' = 0
    /\ api_pc' = "start_reset_shutdown"
    /\ UNCHANGED <<status, status_feed, shutdown_requested, ipc_channel, health_monitor,
                   api_err, last_result, last_health>>
    /\ cfgUnchanged /\ sendsUnchanged /\ chansUnchanged /\ loopsUnchanged /\ boundsUnchanged /\ ghostUnchanged

\* Lines 76-77.
StartResetShutdown ==
    /\ api_pc = "start_reset_shutdown"
    /\ shutdown_requested' = FALSE
    /\ api_pc' = "start_spawn"
    /\ UNCHANGED <<status, status_feed, restart_attempts, ipc_channel, health_monitor,
                   api_err, last_result, last_health>>
    /\ cfgUnchanged /\ sendsUnchanged /\ chansUnchanged /\ loopsUnchanged /\ boundsUnchanged /\ ghostUnchanged

\* spawn_ai_process, lines 172-217: the path checks or command.spawn() fail, or
\* the child is spawned and a new channel, bound to it, replaces the manager's.
StartSpawn(spawned) ==
    /\ api_pc = "start_spawn"
    /\ IF spawned
       THEN /\ nspawn' = nspawn + 1
            /\ chan_process' = [chan_process EXCEPT ![nspawn + 1] = "Some"]
            /\ ipc_channel' = nspawn + 1
            /\ worker_alive' = KillDropped([worker_alive EXCEPT ![nspawn + 1] = TRUE],
                                           nspawn + 1, health_monitor, loop_pc, loop_chan)
            /\ api_pc' = "start_wait"
            /\ api_err' = api_err
       ELSE /\ api_pc' = "start_failed"
            /\ api_err' = "ProcessSpawnError"
            /\ UNCHANGED <<nspawn, chan_process, ipc_channel, worker_alive>>
    /\ UNCHANGED <<status, status_feed, restart_attempts, shutdown_requested,
                   health_monitor, process_lock, last_result, last_health>>
    /\ cfgUnchanged /\ sendsUnchanged /\ loopsUnchanged /\ boundsUnchanged /\ ghostUnchanged

\* wait_for_ready, lines 227-257: a status request returned "ready", which only
\* a running worker sends, or the startup timeout elapsed.
StartWait(ready) ==
    /\ api_pc = "start_wait"
    /\ ready => worker_alive[ipc_channel]
    /\ api_pc' = IF ready THEN "start_ok" ELSE "start_failed"
    /\ api_err' = IF ready THEN api_err ELSE "StartupFailed"
    /\ UNCHANGED <<status, status_feed, restart_attempts, shutdown_requested, ipc_channel,
                   health_monitor, last_result, last_health>>
    /\ cfgUnchanged /\ sendsUnchanged /\ chansUnchanged /\ loopsUnchanged /\ boundsUnchanged /\ ghostUnchanged

\* Lines 81-91: announce Ready, start_health_monitoring (a new monitor on the
\* current channel replaces the old one, whose task is aborted by its Drop) and
\* start_restart_monitoring (a new loop on the current channel).
StartFinishOk ==
    /\ api_pc = "start_ok"
    /\ UpdateStatus("Ready")
    /\ health_monitor' = ipc_channel
    /\ LET l == CHOOSE k \in Loops : loop_pc[k] = "none" /\ \A j \in Loops : j < k => loop_pc[j] # "none"
       IN  /\ loop_pc' = [loop_pc EXCEPT ![l] = "sleep"]
           /\ loop_chan' = [loop_chan EXCEPT ![l] = ipc_channel]
    /\ worker_alive' = KillDropped(worker_alive, ipc_channel, health_monitor', loop_pc', loop_chan')
    /\ last_result' = "Ok"
    /\ api_pc' = "idle"
    /\ UNCHANGED <<restart_attempts, shutdown_requested, ipc_channel, api_err, loop_cur,
                   chan_process, process_lock, nspawn, last_health>>
    /\ cfgUnchanged /\ sendsUnchanged /\ boundsUnchanged /\ ghostUnchanged

\* Lines 93-97: announce Error and return the error.
StartFinishErrMonitored ==
    /\ api_pc = "start_failed"
    /\ UpdateStatus("Error")
    /\ last_result' = api_err
    /\ api_pc' = "idle"
    /\ health_monitor' = ipc_channel
    /\ UNCHANGED <<restart_attempts, shutdown_requested, ipc_channel, api_err, last_health>>
    /\ cfgUnchanged /\ sendsUnchanged /\ chansUnchanged /\ loopsUnchanged /\ boundsUnchanged /\ ghostUnchanged
StartFinishErr ==
    /\ api_pc = "start_failed"
    /\ UpdateStatus("Error")
    /\ last_result' = api_err
    /\ api_pc' = "idle"
    /\ UNCHANGED <<restart_attempts, shutdown_requested, ipc_channel, health_monitor,
                   api_err, last_health>>
    /\ cfgUnchanged /\ sendsUnchanged /\ chansUnchanged /\ loopsUnchanged /\ boundsUnchanged /\ ghostUnchanged

\* -------------------------------------------------------------- stop()
\* Lines 105-106: set the shutdown flag.
StopSetFlag ==
    /\ api_pc = "idle"
    /\ stop_calls < MaxStops
    /\ stop_calls' = stop_calls + 1
    /\ shutdown_requested' = TRUE
    /\ api_pc' = "stop_take"
    /\ UNCHANGED <<status, status_feed, restart_attempts, ipc_channel, health_monitor,
                   api_err, last_result, last_health, start_calls, health_ticks>>
    /\ cfgUnchanged /\ sendsUnchanged /\ chansUnchanged /\ loopsUnchanged /\ ghostUnchanged

\* Lines 108-111 and terminate, lines 252-258: stop the monitor, lock the
\* process handle and take the child out of it; with a child in hand, send the
\* shutdown notification and sleep two seconds, the lock held.
StopTake ==
    /\ api_pc = "stop_take"
    /\ process_lock[ipc_channel] = "free"
    /\ health_monitor' = 0
    /\ chan_process' = [chan_process EXCEPT ![ipc_channel] = "None"]
    /\ IF chan_process[ipc_channel] = "Some"
       THEN /\ process_lock' = [process_lock EXCEPT ![ipc_channel] = "terminate"]
            /\ api_pc' = "stop_kill"
            /\ stopped_gracefully' = IF worker_alive[ipc_channel]
                                     THEN stopped_gracefully \cup {ipc_channel}
                                     ELSE stopped_gracefully
       ELSE /\ api_pc' = "stop_status"
            /\ UNCHANGED <<process_lock, stopped_gracefully>>
    /\ worker_alive' = KillDropped(worker_alive, ipc_channel, 0, loop_pc, loop_chan)
    /\ UNCHANGED <<status, status_feed, restart_attempts, shutdown_requested, ipc_channel,
                   nspawn, api_err, last_result, last_health, gave_up>>
    /\ cfgUnchanged /\ sendsUnchanged /\ loopsUnchanged /\ boundsUnchanged

\* terminate, lines 260-274: kill the child, wait for its exit, clear the
\* writer handle; the guard on the process handle is released on return.
StopKill ==
    /\ api_pc = "stop_kill"
    /\ worker_alive' = [worker_alive EXCEPT ![ipc_channel] = FALSE]
    /\ process_lock' = [process_lock EXCEPT ![ipc_channel] = "free"]
    /\ api_pc' = "stop_status"
    /\ UNCHANGED <<status, status_feed, restart_attempts, shutdown_requested, ipc_channel,
                   health_monitor, chan_process, nspawn, api_err, last_result, last_health>>
    /\ cfgUnchanged /\ sendsUnchanged /\ loopsUnchanged /\ boundsUnchanged /\ ghostUnchanged

\* Lines 116-120: announce Stopped.
StopFinish ==
    /\ api_pc = "stop_status"
    /\ UpdateStatus("Stopped")
    /\ api_pc' = "idle"
    /\ UNCHANGED <<restart_attempts, shutdown_requested, ipc_channel, health_monitor,
                   api_err, last_result, last_health>>
    /\ cfgUnchanged /\ sendsUnchanged /\ chansUnchanged /\ loopsUnchanged /\ boundsUnchanged /\ ghostUnchanged

\* ------------------------------------------------- restart-monitoring loop
\* Lines 316-321: the one-second sleep ends; leave the loop if shutdown was
\* requested.
LoopCheckShutdown(l) ==
    /\ loop_pc[l] = "sleep"
    /\ loop_pc' = [loop_pc EXCEPT ![l] = IF shutdown_requested THEN "exited" ELSE "probe"]
    /\ worker_alive' = KillDropped(worker_alive, ipc_channel, health_monitor, loop_pc', loop_chan)
    /\ UNCHANGED <<status, status_feed, restart_attempts, shutdown_requested, ipc_channel,
                   health_monitor, chan_process, process_lock, nspawn, api_pc, api_err,
                   last_result, loop_chan, loop_cur, last_health>>
    /\ cfgUnchanged /\ sendsUnchanged /\ boundsUnchanged /\ ghostUnchanged

\* Line 324: is_process_running() on the captured channel, once the lock on the
\* process handle is granted.
LoopProbe(l) ==
    /\ loop_pc[l] = "probe"
    /\ process_lock[loop_chan[l]] = "free"
    /\ loop_pc' = [loop_pc EXCEPT
            ![l] = IF IsProcessRunning(loop_chan[l]) THEN "sleep" ELSE "count"]
    /\ UNCHANGED <<status, status_feed, restart_attempts, shutdown_requested, ipc_channel,
                   health_monitor, api_pc, api_err, last_result, loop_chan, loop_cur,
                   last_health>>
    /\ cfgUnchanged /\ sendsUnchanged /\ chansUnchanged /\ boundsUnchanged /\ ghostUnchanged

\* Lines 327-361: increment the counter; within the limit announce Restarting
\* with the attempt number, beyond it announce the terminal Error and leave.
LoopCount(l) ==
    /\ loop_pc[l] = "count"
    /\ LET cur == restart_attempts + 1
       IN  /\ restart_attempts' = cur
           /\ loop_cur' = [loop_cur EXCEPT ![l] = cur]
           /\ IF LoopMayRestart(cur)
              THEN /\ status_feed' = Append(status_feed, Update("Restarting", "crash", cur))
                   /\ loop_pc' = [loop_pc EXCEPT ![l] = "backoff"]
                   /\ gave_up' = gave_up
              ELSE /\ status_feed' = Append(status_feed, Update("Error", "max", 0))
                   /\ loop_pc' = [loop_pc EXCEPT ![l] = "gaveup"]
                   /\ gave_up' = TRUE
    /\ worker_alive' = KillDropped(worker_alive, ipc_channel, health_monitor, loop_pc', loop_chan)
    /\ UNCHANGED <<status, shutdown_requested, ipc_channel, health_monitor, chan_process,
                   process_lock, nspawn, api_pc, api_err, last_result, loop_chan,
                   last_health, stopped_gracefully>>
    /\ cfgUnchanged /\ sendsUnchanged /\ boundsUnchanged

\* Lines 349-352: the backoff sleep ends; nothing is spawned (the restart logic
\* is a TODO) and the loop goes round.
LoopBackoff(l) ==
    /\ loop_pc[l] = "backoff"
    /\ loop_pc' = [loop_pc EXCEPT ![l] = "sleep"]
    /\ loop_cur' = [loop_cur EXCEPT ![l] = 0]    \* current_attempts goes out of scope
    /\ UNCHANGED <<status, status_feed, restart_attempts, shutdown_requested, ipc_channel,
                   health_monitor, api_pc, api_err, last_result, loop_chan, last_health>>
    /\ cfgUnchanged /\ sendsUnchanged /\ chansUnchanged /\ boundsUnchanged /\ ghostUnchanged

\* ------------------------------------------------------- health monitor
\* health.rs lines 75-91 with the callback of manager.rs lines 272-298: probe
\* (process not running, or the ping answered or not), store the result, and on
\* an unhealthy one announce Restarting or Error from the counter.
HealthTick(pong) ==
    /\ health_monitor # 0
    /\ health_ticks < MaxTicks
    /\ process_lock[health_monitor] = "free"
    /\ pong => IsProcessRunning(health_monitor)
    /\ health_ticks' = health_ticks + 1
    /\ last_health' = IF pong THEN "healthy" ELSE "unhealthy"
    /\ status_feed' =
          IF pong THEN status_feed
          ELSE IF HealthMayRestart(restart_attempts)
               THEN Append(status_feed, Update("Restarting", "health", restart_attempts + 1))
               ELSE Append(status_feed, Update("Error", "max", 0))
    /\ UNCHANGED <<status, restart_attempts, shutdown_requested, ipc_channel,
                   health_monitor, api_pc, api_err, last_result, start_calls, stop_calls>>
    /\ cfgUnchanged /\ sendsUnchanged /\ chansUnchanged /\ loopsUnchanged /\ ghostUnchanged

\* ------------------------------------------------------------ the worker
\* A worker process exits on its own or is killed from outside.
WorkerCrash(ch) ==
    /\ worker_alive[ch]
    /\ worker_alive' = [worker_alive EXCEPT ![ch] = FALSE]
    /\ UNCHANGED <<status, status_feed, restart_attempts, shutdown_requested, ipc_channel,
                   health_monitor, chan_process, process_lock, nspawn, api_pc, api_err,
                   last_result, last_health>>
    /\ cfgUnchanged /\ sendsUnchanged /\ loopsUnchanged /\ boundsUnchanged /\ ghostUnchanged

\* --------------------------------- send_request / send_notification
\* message_sender.send on the manager's channel. The channel of new() has no
\* receiving half; a bound channel has one until its writer task ends, which
\* takes a failed write or a cleared writer handle.
MaySend(accepted) ==
    /\ accepted => ipc_channel # 0
    /\ ~accepted => \/ ipc_channel = 0
                    \/ ~worker_alive[ipc_channel]
                    \/ chan_process[ipc_channel] = "None"

\* send_request, lines 144-160, delegating to IPCChannel::send_request (lines
\* 187-218): the entry is inserted, the message is queued or the send fails,
\* and a queued request ends with the response or with its timeout. The manager
\* is shared behind a read-write lock (lib.rs:31), so no start() or stop() is
\* in progress. The status is not consulted.
ManagerSendRequest(accepted, answered) ==
    /\ api_pc = "idle"
    /\ send_calls < MaxSends
    /\ send_calls' = send_calls + 1
    /\ MaySend(accepted)
    /\ answered => accepted /\ worker_alive[ipc_channel]
    /\ last_send' = [kind |-> "request", entry |-> TRUE, queued |-> accepted,
                     result |-> IF ~accepted THEN "CommunicationError"
                                ELSE IF answered THEN "Ok" ELSE "TimeoutError"]
    /\ UNCHANGED <<status, status_feed, restart_attempts, shutdown_requested, ipc_channel,
                   health_monitor, api_pc, api_err, last_result, last_health,
                   start_calls, stop_calls, health_ticks>>
    /\ cfgUnchanged /\ chansUnchanged /\ loopsUnchanged /\ ghostUnchanged

\* send_notification, lines 163-169, delegating to IPCChannel::send_notification.
ManagerSendNotification(accepted) ==
    /\ api_pc = "idle"
    /\ send_calls < MaxSends
    /\ send_calls' = send_calls + 1
    /\ MaySend(accepted)
    /\ last_send' = [kind |-> "notification", entry |-> FALSE, queued |-> accepted,
                     result |-> IF accepted THEN "Ok" ELSE "CommunicationError"]
    /\ UNCHANGED <<status, status_feed, restart_attempts, shutdown_requested, ipc_channel,
                   health_monitor, api_pc, api_err, last_result, last_health,
                   start_calls, stop_calls, health_ticks>>
    /\ cfgUnchanged /\ chansUnchanged /\ loopsUnchanged /\ ghostUnchanged

NextSup ==
    \/ \E valid \in BOOLEAN : StartBegin(valid, MaxStarts)
    \/ StartResetAttempts
    \/ StartResetShutdown
    \/ \E spawned \in BOOLEAN : StartSpawn(spawned)
    \/ \E ready \in BOOLEAN : StartWait(ready)
    \/ StartFinishOk
    \/ StartFinishErr
    \/ StopSetFlag
    \/ StopTake
    \/ StopKill
    \/ StopFinish
    \/ \E l \in Loops : LoopCheckShutdown(l)
    \/ \E l \in Loops : LoopProbe(l)
    \/ \E l \in Loops : LoopCount(l)
    \/ \E l \in Loops : LoopBackoff(l)
    \/ \E pong \in BOOLEAN : HealthTick(pong)
    \/ \E ch \in Chans : WorkerCrash(ch)

InitSpecSup == InitChan /\ InitSup(0..MaxCfgAttempts) /\ DefaultBackoff
SpecSup == InitSpecSup /\ [][NextSup]_vars

\* Every task that is ready to run is run: timers elapse, locks are granted and
\* a call of start() or stop() in progress goes on. Nobody has to call start()
\* or stop(), and no worker has to crash.
FairSpecSup ==
    /\ SpecSup
    /\ WF_vars(StartResetAttempts) /\ WF_vars(StartResetShutdown)
    /\ WF_vars(\E spawned \in BOOLEAN : StartSpawn(spawned))
    /\ WF_vars(\E ready \in BOOLEAN : StartWait(ready))
    /\ WF_vars(StartFinishOk) /\ WF_vars(StartFinishErr)
    /\ WF_vars(StopTake) /\ WF_vars(StopKill) /\ WF_vars(StopFinish)
    /\ \A l \in Loops : /\ WF_vars(LoopCheckShutdown(l))
                        /\ WF_vars(LoopProbe(l))
                        /\ WF_vars(LoopCount(l))
                        /\ WF_vars(LoopBackoff(l))

\* ------------------------------------------------------------ backoff
Min(a, b) == IF a <= b THEN a ELSE b

RECURSIVE Pow2(_)
Pow2(n) == IF n = 0 THEN 1 ELSE 2 * Pow2(n - 1)

\* Duration::as_secs: the whole seconds of a duration. Duration::from_secs.
AsSecs(ms) == ms \div 1000
FromSecs(secs) == secs * 1000

\* Lines 344-349: min(base.as_secs() * 2^(current_attempts - 1), cap.as_secs()),
\* slept as Duration::from_secs. (u64 arithmetic; the durations explored here
\* are far from its range.)
BackoffDelay(base, cap, current_attempts) ==
    FromSecs(Min(AsSecs(base) * Pow2(current_attempts - 1), AsSecs(cap)))

\* The loop computes the delay before attempt k, lines 333 and 344-349.
ComputeBackoff(k) ==
    /\ backoff_attempt = 0
    /\ LoopMayRestart(k)
    /\ backoff_attempt' = k
    /\ backoff_delay' = BackoffDelay(restart_delay_base, max_restart_delay, k)
    /\ UNCHANGED <<status, status_feed, restart_attempts, shutdown_requested, ipc_channel,
                   health_monitor, max_restart_attempts, chan_process, process_lock,
                   worker_alive, nspawn, api_pc, api_err, last_result, loop_pc, loop_chan,
                   loop_cur, last_health, start_calls, stop_calls, health_ticks, gave_up,
                   stopped_gracefully, send_calls, last_send,
                   restart_delay_base, max_restart_delay, chanVars, feedVars, monVars,
                   confVars, cycVars>>

NextBackoff == \E k \in 1..MaxBackoffAttempts : ComputeBackoff(k)

\* Configurations validate() accepts: it does not constrain the two durations.
InitSpecBackoff ==
    /\ InitChan
    /\ InitSup(1..MaxBackoffAttempts)
    /\ InitBackoff({500, 1000, 1500, 2000, 3000}, {1000, 2500, 4000, 60000})
SpecBackoff == InitSpecBackoff /\ [][NextBackoff]_vars

\* --------------------------------------------------------- validate()
\* config.rs lines 166-185: the limits of validate().
MaxStartupSecs == 300
MaxAttemptsCeiling == 10

\* validate, config.rs lines 129-198. checks_ok: the checks of the paths and
\* of the environment variables pass (lines 130-163 and 188-195).
Validate(checks_ok) ==
    /\ checks_ok
    /\ AsSecs(startup_timeout) # 0
    /\ ~(AsSecs(startup_timeout) > MaxStartupSecs)
    /\ AsSecs(health_check_interval) # 0
    /\ AsSecs(health_check_timeout) # 0
    /\ ~(max_restart_attempts > MaxAttemptsCeiling)

\* start() on the manager's configuration, manager.rs lines 66-68.
StartValidated(checks_ok) == StartBegin(Validate(checks_ok), MaxRuns)

\* start() on any configuration, up to its return.
NextValidate ==
    \/ \E checks_ok \in BOOLEAN : StartValidated(checks_ok)
    \/ StartResetAttempts
    \/ StartResetShutdown
    \/ \E spawned \in BOOLEAN : StartSpawn(spawned)
    \/ \E ready \in BOOLEAN : StartWait(ready)
    \/ StartFinishOk
    \/ StartFinishErr

\* Configurations around the limits of validate().
InitSpecValidate ==
    /\ InitChan
    /\ InitMgr({0, 1, MaxAttemptsCeiling, MaxAttemptsCeiling + 1})
    /\ InitMon({TRUE})
    /\ InitTimeouts({0, 500, DefaultStartupTimeout, FromSecs(MaxStartupSecs),
                     FromSecs(MaxStartupSecs) + 500, FromSecs(MaxStartupSecs + 1)},
                    {0, DefaultHealthInterval}, {0, DefaultHealthTimeout})
    /\ DefaultBackoff
SpecValidate == InitSpecValidate /\ [][NextValidate]_vars

\* The whole supervisor for a client that calls start() up to MaxRuns times, on
\* a configuration that allows no restart or one.
NextOne ==
    \/ \E valid \in BOOLEAN : StartBegin(valid, MaxRuns)
    \/ StartResetAttempts
    \/ StartResetShutdown
    \/ \E spawned \in BOOLEAN : StartSpawn(spawned)
    \/ \E ready \in BOOLEAN : StartWait(ready)
    \/ StartFinishOk
    \/ StartFinishErr
    \/ StopSetFlag
    \/ StopTake
    \/ StopKill
    \/ StopFinish
    \/ \E l \in Loops : LoopCheckShutdown(l)
    \/ \E l \in Loops : LoopProbe(l)
    \/ \E l \in Loops : LoopCount(l)
    \/ \E l \in Loops : LoopBackoff(l)
    \/ \E pong \in BOOLEAN : HealthTick(pong)
    \/ \E ch \in Chans : WorkerCrash(ch)

InitSpecOne == InitChan /\ InitSup({0, 1}) /\ DefaultBackoff
SpecOne == InitSpecOne /\ [][NextOne]_vars

\* Every task that is ready to run is run, the health monitor's interval
\* timer included; nobody has to call start() or stop(), and no worker has to
\* crash.
FairSpecOne ==
    /\ SpecOne
    /\ WF_vars(StartResetAttempts) /\ WF_vars(StartResetShutdown)
    /\ WF_vars(\E spawned \in BOOLEAN : StartSpawn(spawned))
    /\ WF_vars(\E ready \in BOOLEAN : StartWait(ready))
    /\ WF_vars(StartFinishOk) /\ WF_vars(StartFinishErr)
    /\ WF_vars(StopTake) /\ WF_vars(StopKill) /\ WF_vars(StopFinish)
    /\ WF_vars(\E pong \in BOOLEAN : HealthTick(pong))
    /\ \A l \in Loops : /\ WF_vars(LoopCheckShutdown(l))
                        /\ WF_vars(LoopProbe(l))
                        /\ WF_vars(LoopCount(l))
                        /\ WF_vars(LoopBackoff(l))

\* A client that calls start() up to MaxSessions times on a configuration with
\* max_restart_attempts = 0, in the window where no worker exits on its own and
\* the health monitor does not tick.
NextStop ==
    \/ \E valid \in BOOLEAN : StartBegin(valid, MaxSessions)
    \/ StartResetAttempts
    \/ StartResetShutdown
    \/ \E spawned \in BOOLEAN : StartSpawn(spawned)
    \/ \E ready \in BOOLEAN : StartWait(ready)
    \/ StartFinishOk
    \/ StartFinishErr
    \/ StopSetFlag
    \/ StopTake
    \/ StopKill
    \/ StopFinish
    \/ \E l \in Loops : LoopCheckShutdown(l)
    \/ \E l \in Loops : LoopProbe(l)
    \/ \E l \in Loops : LoopCount(l)

InitSpecStop == InitChan /\ InitSup({0}) /\ DefaultBackoff
SpecStop == InitSpecStop /\ [][NextStop]_vars

FairSpecStop ==
    /\ SpecStop
    /\ WF_vars(StartResetAttempts) /\ WF_vars(StartResetShutdown)
    /\ WF_vars(\E spawned \in BOOLEAN : StartSpawn(spawned))
    /\ WF_vars(\E ready \in BOOLEAN : StartWait(ready))
    /\ WF_vars(StartFinishOk) /\ WF_vars(StartFinishErr)
    /\ WF_vars(StopTake) /\ WF_vars(StopKill) /\ WF_vars(StopFinish)
    /\ \A l \in Loops : /\ WF_vars(LoopCheckShutdown(l))
                        /\ WF_vars(LoopProbe(l))
                        /\ WF_vars(LoopCount(l))

\* The clients of the manager: start(), stop(), send_request and
\* send_notification, and a worker that may exit; the window in which no
\* restart loop and no health monitor ticks.
NextSend ==
    \/ \E valid \in BOOLEAN : StartBegin(valid, MaxStarts)
    \/ StartResetAttempts
    \/ StartResetShutdown
    \/ \E spawned \in BOOLEAN : StartSpawn(spawned)
    \/ \E ready \in BOOLEAN : StartWait(ready)
    \/ StartFinishOk
    \/ StartFinishErr
    \/ StopSetFlag
    \/ StopTake
    \/ StopKill
    \/ StopFinish
    \/ \E accepted, answered \in BOOLEAN : ManagerSendRequest(accepted, answered)
    \/ \E accepted \in BOOLEAN : ManagerSendNotification(accepted)
    \/ \E ch \in Chans : WorkerCrash(ch)

InitSpecSend == InitChan /\ InitSup({0}) /\ DefaultBackoff
SpecSend == InitSpecSend /\ [][NextSend]_vars

\* ----------------------------------------------------- the status feed
\* UnboundedReceiver::recv: the oldest event not yet received, by its place
\* on the feed.
FeedNextNewest(read) == Len(status_feed)
FeedNext(read) == read + 1

\* A holder of the receiver locks its mutex and awaits recv(): the event is
\* taken off the channel and returned to this holder.
SubscriberRecv(s) ==
    /\ feed_read < Len(status_feed)
    /\ feed_read < MaxReads
    /\ sub_got' = [sub_got EXCEPT ![s] = Append(@, FeedNext(feed_read))]
    /\ feed_read' = feed_read + 1
    /\ UNCHANGED <<mgrVars, monVars, confVars, cycVars, chanVars>>

\* lib.rs lines 76-94, start_ai_engine: a new manager is built and start() is
\* called on it, once.
CommandStart(valid) ==
    /\ start_calls = 0 /\ stop_calls = 0
    /\ StartBegin(valid, MaxRuns)

\* lib.rs lines 97-110, stop_ai_engine: the manager is taken out of the shared
\* state and stop() is called on it, once.
CommandStop ==
    /\ stop_calls = 0
    /\ StopSetFlag

\* The supervisor as the Tauri commands drive it, with the holders of its
\* status receiver.
NextFeed ==
    \/ \E valid \in BOOLEAN : CommandStart(valid)
    \/ StartResetAttempts
    \/ StartResetShutdown
    \/ \E spawned \in BOOLEAN : StartSpawn(spawned)
    \/ \E ready \in BOOLEAN : StartWait(ready)
    \/ StartFinishOk
    \/ StartFinishErr
    \/ CommandStop
    \/ StopTake
    \/ StopKill
    \/ StopFinish
    \/ \E l \in Loops : LoopCheckShutdown(l)
    \/ \E l \in Loops : LoopProbe(l)
    \/ \E l \in Loops : LoopCount(l)
    \/ \E l \in Loops : LoopBackoff(l)
    \/ \E pong \in BOOLEAN : HealthTick(pong)
    \/ \E ch \in Chans : WorkerCrash(ch)
    \/ \E s \in Subs : SubscriberRecv(s)

InitSpecFeed == InitChan /\ InitSup({1}) /\ DefaultBackoff
SpecFeed == InitSpecFeed /\ [][NextFeed]_vars

\* The tasks of the supervisor are run; no holder of the receiver has to read.
FairSpecFeed ==
    /\ SpecFeed
    /\ WF_vars(StartResetAttempts) /\ WF_vars(StartResetShutdown)
    /\ WF_vars(\E spawned \in BOOLEAN : StartSpawn(spawned))
    /\ WF_vars(\E ready \in BOOLEAN : StartWait(ready))
    /\ WF_vars(StartFinishOk) /\ WF_vars(StartFinishErr)
    /\ WF_vars(StopTake) /\ WF_vars(StopKill) /\ WF_vars(StopFinish)
    /\ \A l \in Loops : /\ WF_vars(LoopCheckShutdown(l))
                        /\ WF_vars(LoopProbe(l))
                        /\ WF_vars(LoopCount(l))
                        /\ WF_vars(LoopBackoff(l))

\* ------------------------------------- the health monitor on its channel
mgrExceptHealth ==
    <<status, status_feed, restart_attempts, shutdown_requested, ipc_channel,
      health_monitor, max_restart_attempts, chan_process, process_lock,
      worker_alive, nspawn, api_pc, api_err, last_result, loop_pc, loop_chan,
      loop_cur, start_calls, stop_calls, health_ticks, gave_up,
      stopped_gracefully, send_calls, last_send,
      restart_delay_base, max_restart_delay, backoff_attempt, backoff_delay>>

\* is_process_running, communication.rs lines 236-248: a child is attached and
\* try_wait reports neither an exit nor an error.
ProcessRunningAssumed(probe_ok) == TRUE
ProcessRunning(probe_ok) == process = "Some" /\ child_alive /\ probe_ok

\* Lines 83-86: *last = Some(result.clone()).
StoredFirstOnly(last, result) == IF last = "None" THEN result ELSE last
Stored(last, result) == result

\* HealthCheckResult::healthy / unhealthy(reason).
Healthy(result) == result = "healthy"

\* is_healthy, lines 119-125.
IsHealthy == last_health # "None" /\ Healthy(last_health)

\* The task of the monitor waits at an await point, where abort() cancels it.
AtAwait(t) ==
    \/ mon_pc[t] \in {"tick", "store"}
    \/ mon_pc[t] = "ping" /\ call_state[mon_call[t]] \in {"waiting", "expired", "closed"}

LiveTasks == {t \in Tasks : mon_pc[t] \in {"tick", "ping", "store"}}

\* start, lines 59-97: nothing when a task handle is held, else spawn the
\* probe loop and keep its handle.
MonStartUnguarded ==
    /\ mon_starts < MaxMonStarts
    /\ mon_starts' = mon_starts + 1
    /\ LET t == mon_starts + 1
       IN  /\ mon_pc' = [mon_pc EXCEPT ![t] = "tick"]
           /\ task_handle' = t
    /\ UNCHANGED <<status_callback, mon_call, mon_result, tick_log, callback_log>>
    /\ UNCHANGED <<mgrVars, feedVars, confVars, cycVars, chanVars>>
MonStart ==
    /\ mon_starts < MaxMonStarts
    /\ mon_starts' = mon_starts + 1
    /\ IF task_handle # 0
       THEN UNCHANGED <<mon_pc, task_handle>>
       ELSE LET t == mon_starts + 1
            IN  /\ mon_pc' = [mon_pc EXCEPT ![t] = "tick"]
                /\ task_handle' = t
    /\ UNCHANGED <<status_callback, mon_call, mon_result, tick_log, callback_log>>
    /\ UNCHANGED <<mgrVars, feedVars, confVars, cycVars, chanVars>>

\* stop, lines 100-105, also run by Drop (179-183): take the handle and abort
\* the task. The task is cancelled where it waits; a ping in progress is
\* dropped with its oneshot receiver, its entry stays in the table.
MonStop ==
    /\ task_handle # 0
    /\ AtAwait(task_handle)
    /\ task_handle' = 0
    /\ mon_pc' = [mon_pc EXCEPT ![task_handle] = "aborted"]
    /\ call_state' = IF mon_pc[task_handle] = "ping"
                      THEN [call_state EXCEPT ![mon_call[task_handle]] = "dropped"]
                      ELSE call_state
    /\ UNCHANGED <<status_callback, mon_call, mon_result, mon_starts, tick_log, callback_log>>
    /\ UNCHANGED <<process, stdin_writer, pending_requests, message_queue, receiver_alive,
                   writer_task, reader_task, child_alive, child_stdout, child_seen,
                   lines_out, req_id, slot, outcome>>
    /\ historyUnchanged /\ termUnchanged
    /\ UNCHANGED <<mgrVars, feedVars, confVars, cycVars>>

\* Lines 75-80 and perform_health_check, lines 132-144: the interval elapses;
\* when the process is not running the result is unhealthy at once, else the
\* ping is registered by send_request (communication.rs lines 187-197).
MonProbe(t, probe_ok) ==
    /\ mon_pc[t] = "tick"
    /\ Len(tick_log) < MaxCalls
    /\ IF ProcessRunning(probe_ok)
       THEN \E c \in Calls :
              /\ call_state[c] = "idle"
              /\ \A d \in Calls : d < c => call_state[d] # "idle"
              /\ \E id \in NewIds(UsedIds) :
                    /\ req_id' = [req_id EXCEPT ![c] = id]
                    /\ pending_requests' = [pending_requests EXCEPT ![id] = c]
              /\ call_state' = [call_state EXCEPT ![c] = "registered"]
              /\ mon_call' = [mon_call EXCEPT ![t] = c]
              /\ mon_pc' = [mon_pc EXCEPT ![t] = "ping"]
              /\ mon_result' = [mon_result EXCEPT ![t] = "none"]
       ELSE /\ mon_result' = [mon_result EXCEPT ![t] = "not_running"]
            /\ mon_pc' = [mon_pc EXCEPT ![t] = "store"]
            /\ UNCHANGED <<req_id, pending_requests, call_state, mon_call>>
    /\ UNCHANGED <<task_handle, status_callback, mon_starts, tick_log, callback_log>>
    /\ UNCHANGED <<message_queue, receiver_alive, slot, outcome>>
    /\ tasksUnchanged /\ childUnchanged /\ historyUnchanged /\ termUnchanged
    /\ UNCHANGED <<mgrVars, feedVars, confVars, cycVars>>

\* perform_health_check, lines 144-163: the match on what send_request
\* returned. rpc_error: the response has an error member.
ProbeResultLenient(out, rpc_error) ==
    IF out \in {"Response", "TimeoutError"}
    THEN IF rpc_error THEN "ping_failed" ELSE "healthy"
    ELSE "error"
ProbeResult(out, rpc_error) ==
    IF out = "Response"
    THEN IF rpc_error THEN "ping_failed" ELSE "healthy"
    ELSE IF out = "TimeoutError" THEN "timed_out" ELSE "error"

\* The results built by HealthCheckResult::unhealthy(reason), by their reason.
Unhealthy == {"not_running", "ping_failed", "timed_out", "error"}

\* perform_health_check, lines 145-163: send_request returned; the result is
\* healthy for a response without an error member.
MonResult(t, rpc_error) ==
    /\ mon_pc[t] = "ping"
    /\ call_state[mon_call[t]] = "done"
    /\ rpc_error => outcome[mon_call[t]] = "Response"
    /\ mon_result' = [mon_result EXCEPT ![t] = ProbeResult(outcome[mon_call[t]], rpc_error)]
    /\ mon_pc' = [mon_pc EXCEPT ![t] = "store"]
    /\ UNCHANGED <<task_handle, status_callback, mon_call, mon_starts, tick_log,
                   callback_log>>
    /\ UNCHANGED <<mgrVars, feedVars, confVars, cycVars, chanVars>>

\* Lines 82-91: the write lock on last_result is granted; store the result and
\* call the callback, when one is registered, with it.
MonStore(t) ==
    /\ mon_pc[t] = "store"
    /\ last_health' = Stored(last_health, mon_result[t])
    /\ callback_log' = IF status_callback
                        THEN Append(callback_log, <<mon_result[t], last_health'>>)
                        ELSE callback_log
    /\ tick_log' = Append(tick_log, mon_result[t])
    /\ mon_pc' = [mon_pc EXCEPT ![t] = "tick"]
    /\ UNCHANGED <<task_handle, status_callback, mon_call, mon_result, mon_starts>>
    /\ UNCHANGED <<mgrExceptHealth, feedVars, confVars, cycVars, chanVars>>

\* start_with_process takes &mut self: the channel is bound before it is
\* shared with a monitor.
BindChannel ==
    /\ mon_starts = 0
    /\ StartWithProcess

\* One monitor on one channel, started and left running; the only requests
\* are the monitor's pings.
NextHealth ==
    \/ BindChannel
    \/ MonStart
    \/ \E t \in Tasks, probe_ok \in BOOLEAN : MonProbe(t, probe_ok)
    \/ \E t \in Tasks, rpc_error \in BOOLEAN : MonResult(t, rpc_error)
    \/ \E t \in Tasks : MonStore(t)
    \/ \E c \in Calls : Enqueue(c)
    \/ \E c \in Calls : ReceiveResponse(c)
    \/ \E c \in Calls : AwaitEnds(c)
    \/ \E c \in Calls : Cleanup(c)
    \/ WriterStep
    \/ \E id \in Ids \cup {GarbageId} : ChildRespond(id)
    \/ ChildExit
    \/ ReaderStep
    \/ ReaderEof

InitSpecHealth ==
    InitChan /\ InitMgr({0}) /\ InitMon(BOOLEAN) /\ DefaultTimeouts /\ DefaultBackoff
SpecHealth == InitSpecHealth /\ [][NextHealth]_vars

\* The ids of the response lines the child has written.
Answered ==
    {child_stdout[k] : k \in DOMAIN child_stdout}
        \cup {i \in Ids : delivered[i] > 0} \cup orphaned \cup send_failed

\* A worker that answers a ping at most once.
ChildAnswer(id) ==
    /\ id \notin Answered
    /\ ChildRespond(id)

\* A monitor that is started and stopped, on the channel of a worker that
\* answers each ping at most once.
NextMonitor ==
    \/ BindChannel
    \/ MonStart
    \/ MonStop
    \/ \E t \in Tasks, probe_ok \in BOOLEAN : MonProbe(t, probe_ok)
    \/ \E t \in Tasks, rpc_error \in BOOLEAN : MonResult(t, rpc_error)
    \/ \E t \in Tasks : MonStore(t)
    \/ \E c \in Calls : Enqueue(c)
    \/ \E c \in Calls : ReceiveResponse(c)
    \/ \E c \in Calls : AwaitEnds(c)
    \/ \E c \in Calls : Cleanup(c)
    \/ WriterStep
    \/ \E id \in Ids : ChildAnswer(id)
    \/ ChildExit
    \/ ReaderStep
    \/ ReaderEof

InitSpecMonitor == InitChan /\ InitSup({0}) /\ DefaultBackoff
SpecMonitor == InitSpecMonitor /\ [][NextMonitor]_vars

\* ------------------------------------- the channels of the spawn cycles
\* The bodies of a response: a result that is the string "ready", another
\* result, or an error (RpcResponse: exactly one of result and error is set).
Bodies == {"ready", "other", "error"}

UsedRequestIds == {requests[r].id : r \in Calls} \ {0}

\* Who calls send_request on channel ch: the manager for a client or for
\* wait_for_ready, on the channel it holds (manager.rs lines 149 and 232); the
\* task of the health monitor on the channel it captured (lines 262, health.rs
\* line 140).
MayRequest(ch) ==
    \/ ch = ipc_channel /\ api_pc \in {"idle", "start_wait"}
    \/ ch = health_monitor /\ health_monitor # 0

\* message_sender.send on channel ch (see MaySend).
ChanSend(ch, accepted) ==
    /\ accepted => ch # 0
    /\ ~accepted => \/ ch = 0
                    \/ ~worker_alive[ch]
                    \/ chan_process[ch] = "None"

\* The table the reader task of channel ch works on: the clone of its own
\* channel's pending_requests, taken when the task was spawned
\* (communication.rs line 77).
ReaderTableCurrent(ch) == ipc_channel
ReaderTable(ch) == ch

\* The reader task of channel ch was spawned (communication.rs line 67); it
\* reads for as long as its worker's output has lines.
ReaderRunning(ch) == ch \in 1..nspawn

\* send_request on channel ch, communication.rs lines 187-201: a fresh id, its
\* sender inserted into the table of ch, the message sent to the writer of ch;
\* a failed send returns at once.
ChanRequest(r, ch, accepted) ==
    /\ requests[r].state = "idle"
    /\ \A q \in Calls : q < r => requests[q].state # "idle"
    /\ MayRequest(ch)
    /\ ChanSend(ch, accepted)
    /\ \E id \in NewIds(UsedRequestIds) :
          /\ requests' = [requests EXCEPT ![r] =
                [chan |-> ch, id |-> id,
                 state |-> IF accepted THEN "waiting" ELSE "failed",
                 got |-> NoBody, from |-> NoChan, stray |-> FALSE]]
          /\ chan_pending' = [chan_pending EXCEPT ![ch][id] = r]
    /\ UNCHANGED chan_stdout
    /\ UNCHANGED <<mgrVars, feedVars, monVars, confVars, chanVars>>

\* The lines written by the workers and not yet read.
RECURSIVE SumLen(_, _)
SumLen(lines, chs) ==
    IF chs = {} THEN 0
    ELSE LET ch == CHOOSE x \in chs : TRUE
         IN  Len(lines[ch]) + SumLen(lines, chs \ {ch})
UnreadLines == SumLen(chan_stdout, Chans)

\* The worker of channel ch writes a response line; nothing ties the id it
\* writes to a request it has read.
WorkerRespond(ch, id, body) ==
    /\ worker_alive[ch]
    /\ UnreadLines < MaxUnread
    /\ chan_stdout' = [chan_stdout EXCEPT ![ch] = Append(@, <<id, body>>)]
    /\ UNCHANGED <<chan_pending, requests>>
    /\ UNCHANGED <<mgrVars, feedVars, monVars, confVars, chanVars>>

\* Reader task of channel ch, communication.rs lines 92-118: remove the entry
\* of the line's id from its table and send the response through the sender
\* found there.
ChanReaderStep(ch) ==
    /\ ReaderRunning(ch)
    /\ chan_stdout[ch] # <<>>
    /\ LET id   == Head(chan_stdout[ch])[1]
           body == Head(chan_stdout[ch])[2]
           tbl  == ReaderTable(ch)
           r    == Owner(chan_pending[tbl], id)
       IN  /\ chan_stdout' = [chan_stdout EXCEPT ![ch] = Tail(@)]
           /\ chan_pending' = [chan_pending EXCEPT ![tbl] = RemoveKey(@, id)]
           /\ requests' = [q \in Calls |->
                  IF q = r /\ requests[q].state = "waiting"
                  THEN [requests[q] EXCEPT !.state = "answered", !.got = body, !.from = ch]
                  ELSE IF /\ q # r /\ requests[q].id = id /\ requests[q].chan # ch
                          /\ requests[q].state = "waiting"
                       THEN [requests[q] EXCEPT !.stray = TRUE]
                       ELSE requests[q]]
    /\ UNCHANGED <<mgrVars, feedVars, monVars, confVars, chanVars>>

\* send_request, lines 212-217: the timeout of request r elapses; its id is
\* removed from the table of its channel.
ChanTimeout(r) ==
    /\ requests[r].state = "waiting"
    /\ requests' = [requests EXCEPT ![r].state = "timedout"]
    /\ chan_pending' = [chan_pending EXCEPT
            ![requests[r].chan] = TimeoutRemove(@, requests[r].id)]
    /\ UNCHANGED chan_stdout
    /\ UNCHANGED <<mgrVars, feedVars, monVars, confVars, chanVars>>

\* A manager on which start() is called up to MaxStarts times and succeeds,
\* each spawn with a channel of its own, in the window in which no worker
\* exits; a worker answers with the id of any request, of its channel or not.
NextCycles ==
    \/ StartBegin(TRUE, MaxStarts)
    \/ StartResetAttempts
    \/ StartResetShutdown
    \/ StartSpawn(TRUE)
    \/ StartWait(TRUE)
    \/ StartFinishOk
    \/ \E r \in Calls, ch \in Chans, accepted \in BOOLEAN : ChanRequest(r, ch, accepted)
    \/ \E ch \in Chans, id \in UsedRequestIds : WorkerRespond(ch, id, "other")
    \/ \E ch \in Chans : ChanReaderStep(ch)
    \/ \E r \in Calls : ChanTimeout(r)

InitSpecCycles == InitChan /\ InitSup({0}) /\ DefaultBackoff
SpecCycles == InitSpecCycles /\ [][NextCycles]_vars

\* ------------------------------------------------- wait_for_ready
\* What start() leaves alone while it waits for the worker to be ready.
waitUnchanged ==
    /\ UNCHANGED <<status, status_feed, restart_attempts, shutdown_requested, ipc_channel,
                   health_monitor, last_result, last_health>>
    /\ UNCHANGED <<max_restart_attempts, chanVars, restart_delay_base, max_restart_delay,
                   backoff_attempt, backoff_delay, feedVars, monVars, confVars>>
    /\ sendsUnchanged /\ chansUnchanged /\ loopsUnchanged /\ boundsUnchanged /\ ghostUnchanged

\* The status request of wait_for_ready that send_request has not returned yet.
InFlight(r) == requests[r].state \in {"waiting", "answered", "timedout", "failed"}

\* manager.rs lines 237-244: the response has a result that is the string
\* "ready".
IsReadyAnyResult(body) == body # "error"
IsReady(body) == body = "ready"

\* wait_for_ready, lines 231-236: the loop sends a status request on the
\* manager's channel.
WaitPoll(r, accepted) ==
    /\ api_pc = "start_wait"
    /\ \A q \in Calls : ~InFlight(q)
    /\ ChanRequest(r, ipc_channel, accepted)

\* Lines 237-251: send_request has returned. With the result "ready" the wait
\* ends with Ok; with anything else, and with an error, the loop sleeps half a
\* second and goes round.
WaitResult(r) ==
    /\ api_pc = "start_wait"
    /\ requests[r].state \in {"answered", "timedout", "failed"}
    /\ requests' = [requests EXCEPT ![r].state = "returned"]
    /\ api_pc' = IF requests[r].state = "answered" /\ IsReady(requests[r].got)
                 THEN "start_ok" ELSE "start_wait"
    /\ UNCHANGED <<chan_pending, chan_stdout, api_err>>
    /\ waitUnchanged

\* Lines 255-256: the startup timeout elapses; the ready check is dropped, and
\* with it a status request that was waiting (its entry stays in the table).
WaitStartupTimeout ==
    /\ api_pc = "start_wait"
    /\ api_pc' = "start_failed"
    /\ api_err' = "StartupFailed"
    /\ requests' = [r \in Calls |->
            IF InFlight(r) THEN [requests[r] EXCEPT !.state = "dropped"] ELSE requests[r]]
    /\ UNCHANGED <<chan_pending, chan_stdout>>
    /\ waitUnchanged

\* start() with its ready-wait spelled out, called up to MaxRuns times; the
\* workers answer a status request with any body, or not at all, and may exit.
NextReady ==
    \/ StartBegin(TRUE, MaxRuns)
    \/ StartResetAttempts
    \/ StartResetShutdown
    \/ StartSpawn(TRUE)
    \/ \E r \in Calls, accepted \in BOOLEAN : WaitPoll(r, accepted)
    \/ \E r \in Calls : WaitResult(r)
    \/ WaitStartupTimeout
    \/ StartFinishOk
    \/ StartFinishErr
    \/ \E ch \in Chans : WorkerCrash(ch)
    \/ \E ch \in Chans, id \in UsedRequestIds, body \in Bodies : WorkerRespond(ch, id, body)
    \/ \E ch \in Chans : ChanReaderStep(ch)
    \/ \E r \in Calls : ChanTimeout(r)

SpecReady == InitSpecCycles /\ [][NextReady]_vars

\* ---------------------------------------------------- supervisor claims
StartSteps == {"start_reset_attempts", "start_reset_shutdown", "start_spawn",
               "start_wait", "start_ok", "start_failed"}

\* The place of the last Ready on the status feed, 0 when there is none.
LastReady ==
    LET at == {i \in DOMAIN status_feed : status_feed[i][1] = "Ready"}
    IN  IF at = {} THEN 0 ELSE CHOOSE i \in at : \A j \in at : j <= i

\* Restarting announcements of the restart loops since the last successful start().
CrashRestartsSinceReady ==
    Cardinality({i \in DOMAIN status_feed :
                    /\ i > LastReady
                    /\ status_feed[i][1] = "Restarting"
                    /\ status_feed[i][2] = "crash"})

\* C7: after a successful start() and until the next one, the restart loops
\* announce Restarting at most max_restart_attempts times (judged when no
\* start() is in progress), and a loop whose increment went beyond the limit
\* does not back off for another attempt.
C7_RestartingWithinLimit ==
    /\ api_pc \notin StartSteps => CrashRestartsSinceReady <= max_restart_attempts
    /\ \A l \in Loops : loop_pc[l] = "backoff" => loop_cur[l] <= max_restart_attempts

\* C8: once a restart loop has given up, and until start() is called, the
\* status cell read by get_status() is Error.
C8_ParkedInError == gave_up => status = "Error"

\* C9: when the worker of a Ready supervisor (max_restart_attempts >= 1) has
\* died, then, unless stop() or start() is called, the feed carries Restarting
\* with attempt 1 and later a Ready, a new process having been spawned.
C9_CrashLeadsToFreshReady ==
    \A ch \in Chans \ {0} :
        (/\ status = "Ready" /\ api_pc = "idle" /\ ~shutdown_requested
         /\ ipc_channel = ch /\ chan_process[ch] = "Some" /\ ~worker_alive[ch]
         /\ max_restart_attempts >= 1)
        ~> (\/ shutdown_requested
            \/ api_pc # "idle"
            \/ /\ nspawn > ch
               /\ \E i, j \in DOMAIN status_feed :
                     /\ i < j
                     /\ status_feed[i] = Update("Restarting", "crash", 1)
                     /\ status_feed[j][1] = "Ready")

\* C10: a restart loop never counts (and announces) a crash of a channel whose
\* running worker stop() took for termination.
C10_StopNotMistaken ==
    [][\A l \in Loops :
          (loop_pc[l] = "count" /\ loop_pc'[l] \in {"backoff", "gaveup"})
              => loop_chan[l] \notin stopped_gracefully]_vars

StopSteps == {"stop_take", "stop_kill", "stop_status"}

InitSpecChan == InitChan /\ InitSup({MaxCfgAttempts}) /\ DefaultBackoff
SpecChan == InitSpecChan /\ [][NextChan]_vars
SpecTerm == InitSpecChan /\ [][NextTerm]_vars
SpecLines == InitSpecChan /\ [][NextLines]_vars
SpecWriter == InitSpecChan /\ [][NextWriter]_vars

\* The writer task is polled when a message is queued for it.
FairSpecWriter == SpecWriter /\ WF_vars(WriterStep)

\* A caller's own steps are taken: the runtime polls a woken task, the timer of
\* timeout() elapses, and the table's lock is granted.
FairSpecChan ==
    /\ SpecChan
    /\ \A c \in Calls : /\ WF_vars(Enqueue(c))
                        /\ WF_vars(ReceiveResponse(c))
                        /\ WF_vars(AwaitEnds(c))
                        /\ WF_vars(Cleanup(c))

\* ------------------------------------------------------- channel claims
\* C1: a response is delivered only to the call that registered its id, and at
\* most one response is ever delivered for an id.
C1_DeliveredToRegistrant ==
    /\ \A c \in Calls : slot[c] # NoResp => slot[c] = req_id[c]
    /\ \A i \in Ids : delivered[i] <= 1
\* A second response with an id already answered found no entry.
C1_Witness == \E i \in Ids : delivered[i] = 1 /\ i \in orphaned

\* C2: a request that timed out had its entry removed exactly once, got the
\* timeout as its only outcome, and its late response reached no other call.
C2_TimedOutRemovedOnce ==
    \A c \in Calls :
        /\ outcome[c] = "TimeoutError" =>
              /\ removed[req_id[c]] = 1
              /\ Owner(pending_requests, req_id[c]) = NoCall
              /\ slot[c] = NoResp
              /\ delivered[req_id[c]] = 0
        /\ outcome[c] = "Response" => slot[c] = req_id[c] /\ removed[req_id[c]] = 1
        /\ \A d \in Calls \ {c} : req_id[c] # 0 => slot[d] # req_id[c]
\* One timed-out request whose response the reader took between the expiry and
\* the cleanup, and one whose response came after the cleanup.
C2_Witness ==
    /\ \E c \in Calls : outcome[c] = "TimeoutError" /\ req_id[c] \in send_failed
    /\ \E c \in Calls : outcome[c] = "TimeoutError" /\ req_id[c] \in orphaned

\* C3: once send_request has returned, its id is no longer in the table.
C3_ReturnedNotInTable ==
    \A c \in Calls : call_state[c] = "done" => Owner(pending_requests, req_id[c]) = NoCall

\* C4: no two calls in flight share an id, and the entry of a call that still
\* waits is its own: no registration overwrote it.
C4_NoSharedPendingId ==
    /\ \A c, d \in Calls :
          (c # d /\ call_state[c] \notin {"idle", "done"}
                 /\ call_state[d] \notin {"idle", "done"}) => req_id[c] # req_id[d]
    /\ \A c \in Calls :
          (call_state[c] \in {"registered", "waiting"} /\ slot[c] = NoResp)
              => Owner(pending_requests, req_id[c]) = c
C4_Witness == \E c, d \in Calls : c # d /\ IsPending(c) /\ IsPending(d)

\* C5: every call that was pending when the reader task saw end-of-input
\* returns, with a TimeoutError or a CommunicationError.
C5_PendingAtExitReturn ==
    \A c \in Calls :
        (c \in pending_at_eof) ~>
            (call_state[c] = "done" /\ outcome[c] \in {"TimeoutError", "CommunicationError"})
C5_Witness ==
    /\ Cardinality(pending_at_eof) >= 2
    /\ \A c \in pending_at_eof : call_state[c] = "done"

\* C6: the cleanup of an expired call removes its own entry only and leaves
\* every other call as it was.
C6_ExpiryFrame ==
    [][\A c \in Calls :
          (call_state[c] = "expired" /\ call_state'[c] = "done") =>
              /\ \A i \in Ids \ {req_id[c]} : pending_requests'[i] = pending_requests[i]
              /\ Owner(pending_requests', req_id[c]) = NoCall
              /\ \A d \in Calls \ {c} : /\ call_state'[d] = call_state[d]
                                         /\ slot'[d] = slot[d]
                                         /\ outcome'[d] = outcome[d]]_vars
\* A call that was pending when another expired got its response afterwards.
C6_Witness ==
    \E c, d \in Calls : /\ outcome[c] = "TimeoutError"
                        /\ d \in inflight_at_expiry[c]
                        /\ outcome[d] = "Response"

\* C12: once terminate() has returned, a send_request begun afterwards fails at
\* its enqueue (CommunicationError, nothing queued, no wait), and a
\* send_notification made afterwards returns an error and queues nothing.
C12_SendsFailFast ==
    [][/\ \A c \in after_terminate :
             (call_state[c] = "registered" /\ call_state'[c] # "registered")
                 => /\ call_state'[c] = "done"
                    /\ outcome'[c] = "CommunicationError"
                    /\ message_queue' = message_queue
       /\ (term_pc = "done" /\ notes_sent' # notes_sent)
             => /\ notify_result' = "CommunicationError"
                /\ message_queue' = message_queue]_vars

\* C13: a send_request or send_notification of the manager made while the
\* status is not Ready returns the "engine not ready" error, queues nothing and
\* leaves no entry in the pending table.
C13_NotReadyRejected ==
    [][(send_calls' # send_calls /\ status # "Ready")
          => /\ last_send'.result = "NotReady"
             /\ ~last_send'.queued
             /\ ~last_send'.entry]_vars

\* C14: a start() whose ready-wait saw "ready" returns Ok with the status Ready,
\* and the feed then ends with the Starting of that call directly followed by
\* its Ready.
C14_StartingThenReady ==
    [][(api_pc = "start_ok" /\ api_pc' = "idle")
          => /\ last_result' = "Ok"
             /\ status' = "Ready"
             /\ Len(status_feed') >= 2
             /\ status_feed'[Len(status_feed')][1] = "Ready"
             /\ status_feed'[Len(status_feed') - 1][1] = "Starting"]_vars

\* C15: when the ready-wait ends by the startup timeout, start() fails with
\* StartupFailed; a failed start() returns its error, never Ok, with the status
\* Error, and the feed then ends with Error, a Starting before it.
C15_StartupTimeoutIsError ==
    [][/\ (api_pc = "start_wait" /\ api_pc' = "start_failed") => api_err' = "StartupFailed"
       /\ (api_pc = "start_failed" /\ api_pc' # "start_failed")
             => /\ api_pc' = "idle"
                /\ last_result' = api_err
                /\ last_result' \in {"StartupFailed", "ProcessSpawnError"}
                /\ status' = "Error"
                /\ status_feed'[Len(status_feed')][1] = "Error"
                /\ \E i \in 1..(Len(status_feed') - 1) : status_feed'[i][1] = "Starting"]_vars

C15_Witness ==
    /\ api_pc = "idle" /\ last_result = "StartupFailed" /\ status = "Error"
    /\ nspawn = 1

\* C16: a start() that fails validation returns ConfigurationError and leaves
\* the status cell, the counter, the shutdown flag, the feed, the channel, the
\* processes, the health monitor and the restart loops as they were.
C16_InvalidConfigChangesNothing ==
    [][(last_result' = "ConfigurationError" /\ last_result # "ConfigurationError")
          => /\ api_pc = "idle" /\ api_pc' = "idle"
             /\ UNCHANGED <<status, restart_attempts, shutdown_requested, status_feed,
                            ipc_channel, health_monitor, nspawn, chan_process,
                            worker_alive, loop_pc, loop_chan>>]_vars

C16_Witness ==
    /\ last_result = "ConfigurationError"
    /\ status = "Ready" /\ health_monitor # 0

\* C17: at the step of a successful start() that makes the status Ready, the
\* restart counter is zero.
C17_CounterZeroAtReady ==
    [][(api_pc = "start_ok" /\ api_pc' = "idle" /\ status' = "Ready")
          => restart_attempts' = 0]_vars

\* The workers that were spawned and have exited.
ExitedWorkers == {ch \in Chans : ch \in 1..nspawn /\ ~worker_alive[ch]}

\* C18: the restart counter never exceeds the number of worker exits: however
\* many ticks observe a dead worker, its exit is counted once.
C18_OncePerCrash == restart_attempts <= Cardinality(ExitedWorkers)

\* C19: the delay slept before attempt k is
\* min(restart_delay_base * 2^(k-1), max_restart_delay).
C19_BackoffFormula ==
    backoff_attempt # 0
        => backoff_delay = Min(restart_delay_base * Pow2(backoff_attempt - 1),
                               max_restart_delay)

\* C20: the status of the last event on the feed is the status that
\* get_status() returns (update_status is one step here, so no update is ever
\* in progress in a state).
C20_FeedMatchesStatus ==
    status_feed # <<>> => status_feed[Len(status_feed)][1] = status

\* C21: every holder of the status receiver receives every event of the feed:
\* the k-th event a holder received is the k-th event sent.
C21_EachSubscriberGetsAll ==
    \A s \in Subs : \A k \in DOMAIN sub_got[s] : sub_got[s][k] = k

\* C22: a holder receives events in the order they were sent, and a start(), a
\* stop() or a restart loop in progress goes on whether or not anybody reads
\* the feed.
C22_OrderedAndNonBlocking ==
    /\ [](\A s \in Subs : \A i, j \in DOMAIN sub_got[s] :
              i < j => sub_got[s][i] < sub_got[s][j])
    /\ (api_pc # "idle") ~> (api_pc = "idle")
    /\ \A l \in Loops : (loop_pc[l] \in {"probe", "count", "backoff"}) ~>
                             (loop_pc[l] \in {"sleep", "gaveup", "exited", "none"})
\* A holder has received two events, and two more wait unread after a
\* start() that returned Ok.
C22_Witness ==
    /\ \E s \in Subs : Len(sub_got[s]) >= 2
    /\ Len(status_feed) - feed_read >= 2
    /\ last_result = "Ok"

C24_NoPingWhenNotRunning ==
    /\ [](process = "None" => ~ProcessRunning(TRUE))
    /\ [][\A t \in Tasks :
            (/\ mon_pc[t] = "tick" /\ mon_pc'[t] \in {"ping", "store"}
             /\ (process = "None" \/ ~child_alive \/ mon_result'[t] = "not_running"))
            => /\ mon_pc'[t] = "store"
               /\ mon_result'[t] = "not_running"
               /\ ~Healthy(mon_result'[t])
               /\ UNCHANGED <<pending_requests, message_queue, call_state, req_id>>]_vars
\* A tick completed on a channel that was never bound to a process, and one on
\* a channel whose child has exited.
C24_Witness ==
    \/ /\ reader_task = "none" /\ process = "None"
       /\ Len(tick_log) >= 2 /\ tick_log[2] = "not_running"
    \/ /\ process = "Some" /\ ~child_alive
       /\ Len(tick_log) >= 2 /\ tick_log[1] = "healthy" /\ tick_log[2] = "not_running"

\* C25: last_health_result() is the result of the last completed tick, None
\* before the first (is_healthy() is then false), and a registered callback
\* was called once per completed tick, with the result of that tick, the
\* result being stored by then.
C25_LastResultAndCallback ==
    /\ last_health = IF tick_log = <<>> THEN "None" ELSE tick_log[Len(tick_log)]
    /\ tick_log = <<>> => ~IsHealthy
    /\ IsHealthy <=> (tick_log # <<>> /\ Healthy(tick_log[Len(tick_log)]))
    /\ IF status_callback
       THEN /\ Len(callback_log) = Len(tick_log)
            /\ \A i \in DOMAIN tick_log : callback_log[i] = <<tick_log[i], tick_log[i]>>
       ELSE callback_log = <<>>
\* A healthy tick followed by an unhealthy one, the callback registered.
C25_Witness ==
    /\ status_callback
    /\ Len(tick_log) >= 2 /\ Healthy(tick_log[1]) /\ ~Healthy(tick_log[2])

\* C26: when the reader task takes a line that is no response for a pending
\* id (empty, not decodable, or a response with an unknown id), it goes on
\* reading and the pending table is as before.
C26_BadLinesAbsorbed ==
    [][(/\ reader_task = "running"
        /\ Len(child_stdout') < Len(child_stdout)
        /\ Owner(pending_requests, Head(child_stdout)) = NoCall)
          => /\ reader_task' = "running"
             /\ pending_requests' = pending_requests]_vars

\* C27: in no state (every state is one where each task waits at an await
\* point) is the lock on a process handle held, so an is_process_running()
\* in progress never waits for a lock that is held across a sleep.
C27_NoLockAcrossAwait ==
    /\ \A ch \in Chans : process_lock[ch] = "free"
    /\ \A l \in Loops : loop_pc[l] = "probe" => process_lock[loop_chan[l]] = "free"

\* C28: a configuration whose startup timeout is zero or more than 300
\* seconds, whose health-check interval or timeout is zero, or whose
\* max_restart_attempts is more than 10 is rejected by validate(), and start()
\* on it ends at the validation: it returns ConfigurationError and spawns
\* nothing.
C28_InvalidConfigRejected ==
    (\/ startup_timeout = 0
     \/ startup_timeout > FromSecs(MaxStartupSecs)
     \/ health_check_interval = 0
     \/ health_check_timeout = 0
     \/ max_restart_attempts > MaxAttemptsCeiling)
        => /\ api_pc = "idle"
           /\ nspawn = 0
           /\ last_result \in {"none", "ConfigurationError"}

\* C29: a tick of the health monitor with an unhealthy result appends one
\* event to the feed, Restarting when the counter is below
\* max_restart_attempts and Error otherwise; a healthy one appends nothing; and
\* the tick leaves the counter, the status cell, the processes and the loops
\* alone. The counter is incremented by the counting step of a restart loop
\* only.
C29_HealthCallbackOnlyAnnounces ==
    [][/\ health_ticks' # health_ticks
             => /\ UNCHANGED <<restart_attempts, status, nspawn, chan_process,
                               worker_alive, ipc_channel, loop_pc, loop_cur>>
                /\ IF last_health' = "unhealthy"
                   THEN /\ Len(status_feed') = Len(status_feed) + 1
                        /\ SubSeq(status_feed', 1, Len(status_feed)) = status_feed
                        /\ status_feed'[Len(status_feed')][1] =
                              IF restart_attempts < max_restart_attempts
                              THEN "Restarting" ELSE "Error"
                   ELSE status_feed' = status_feed
       /\ restart_attempts' > restart_attempts
             => \E l \in Loops : loop_pc[l] = "count" /\ loop_pc'[l] # "count"]_vars
\* The callback has announced Restarting for an unhealthy result.
C29_Witness ==
    /\ last_health = "unhealthy"
    /\ \E i \in DOMAIN status_feed : status_feed[i] = Update("Restarting", "health", 1)

\* The ids of the request messages in the outbound queue.
QueuedIds == {message_queue[k] : k \in DOMAIN message_queue} \cap Ids

\* Call c no longer waits for its response: it has it, or its wait has ended.
StoppedWaiting(c) ==
    slot[c] # NoResp \/ call_state[c] \in {"expired", "closed", "done"}

\* C30: every request that is in the outbound queue or was written to the
\* child was registered first: its id is in the pending table under its
\* call, or that call no longer waits; and a response that found no entry
\* was for a call that no longer waited.
C30_RegisteredBeforeEnqueued ==
    /\ \A id \in QueuedIds \cup child_seen \cup (orphaned \cap Ids) :
          \E c \in Calls :
              /\ req_id[c] = id
              /\ Owner(pending_requests, id) = c \/ StoppedWaiting(c)
    /\ \A c \in Calls : call_state[c] = "waiting" /\ ~StoppedWaiting(c)
                            => Owner(pending_requests, req_id[c]) = c
\* A request that the child has read is still pending, another is still in
\* the queue.
C30_Witness ==
    \E c, d \in Calls :
        /\ req_id[c] \in child_seen /\ IsPending(c)
        /\ req_id[d] \in QueuedIds /\ IsPending(d)

\* C31: a response is delivered to a request only by the reader task of the
\* channel the request was made on, and a step of the reader task of one
\* channel leaves the table of every other channel as it was.
C31_TablePerSpawnCycle ==
    /\ [](\A r \in Calls : requests[r].from # NoChan => requests[r].from = requests[r].chan)
    /\ [][\A ch \in Chans :
            Len(chan_stdout'[ch]) < Len(chan_stdout[ch])
                => \A other \in Chans \ {ch} : chan_pending'[other] = chan_pending[other]]_vars
\* Two channels were built; the reader task of the first one, still running,
\* has read a response with the id of a request that is pending on the second,
\* and a request of the first channel got its own response.
C31_Witness ==
    /\ nspawn >= 2 /\ ReaderRunning(1)
    /\ \E r, q \in Calls :
          /\ requests[r].chan = 2 /\ requests[r].state = "waiting"
          /\ requests[r].stray
          /\ Owner(chan_pending[2], requests[r].id) = r
          /\ requests[q].chan = 1 /\ requests[q].from = 1

StartFailures == {"ProcessSpawnError", "StartupFailed"}

\* C33: a start() that fails at the spawn or at the ready-wait returns that
\* error, with the status cell Error and an Error event appended to the feed,
\* and leaves the health monitor and the restart loops as they were; a monitor
\* or a loop is started only by the last step of a start() that returns Ok.
C33_FailedStartSurfaced ==
    [][/\ (api_pc \in {"start_spawn", "start_wait"} /\ api_pc' = "start_failed")
             => api_err' \in StartFailures
       /\ (api_pc = "start_failed" /\ api_pc' # "start_failed")
             => /\ api_pc' = "idle"
                /\ last_result' = api_err /\ last_result' \in StartFailures
                /\ status' = "Error"
                /\ status_feed' = Append(status_feed, Update("Error", "none", 0))
                /\ UNCHANGED <<health_monitor, loop_pc, loop_chan>>
       /\ (\/ \E l \in Loops : loop_pc[l] = "none" /\ loop_pc'[l] # "none"
           \/ health_monitor' \notin {health_monitor, 0})
             => api_pc = "start_ok" /\ last_result' = "Ok"]_vars
\* A start() failed at its ready-wait after an earlier one had succeeded: the
\* only loop and the monitor are those of the first call, on its channel.
C33_Witness ==
    /\ api_pc = "idle" /\ last_result = "StartupFailed" /\ status = "Error"
    /\ nspawn = 2 /\ ipc_channel = 2
    /\ health_monitor = 1
    /\ \A l \in Loops : loop_pc[l] # "none" => loop_chan[l] = 1

\* The status requests of the current channel that returned "ready".
ReadyAnswers ==
    {r \in Calls : /\ requests[r].chan = ipc_channel
                   /\ requests[r].from = ipc_channel
                   /\ requests[r].got = "ready"}

CanWrite == stdin_writer /\ child_alive

RunningLoops == {l \in Loops : LiveLoop(loop_pc[l])}

\* C36: at most one restart-monitoring loop is running.
C36_OneRestartLoop == Cardinality(RunningLoops) <= 1

\* C37: once stop() was called and a later start() has returned Ok, and while
\* the process of the manager's current channel is running, no restart loop
\* finds a process gone, none announces Restarting or Error, and the restart
\* counter is not written.
C37_ProbesCurrentChannel ==
    [][(/\ stop_calls >= 1 /\ api_pc = "idle" /\ status = "Ready"
        /\ IsProcessRunning(ipc_channel))
          => /\ restart_attempts' = restart_attempts
             /\ \A l \in Loops :
                   /\ loop_pc'[l] = "count" => loop_pc[l] = "count"
                   /\ loop_pc'[l] \in {"backoff", "gaveup"} => loop_pc'[l] = loop_pc[l]]_vars

\* The worker processes that are running.
LiveWorkers == {ch \in Chans : worker_alive[ch]}

\* C38: at most one spawned worker process is alive.
C38_OneLiveChild == Cardinality(LiveWorkers) <= 1

\* C39: the restart counter is at most max_restart_attempts + 1, and only
\* start() makes it smaller.
C39_CounterBounded ==
    /\ [](restart_attempts <= max_restart_attempts + 1)
    /\ [][restart_attempts' < restart_attempts => api_pc = "start_reset_attempts"]_vars

\* An Error was announced on the status feed after the last Ready.
ErrorSinceReady ==
    \E i \in DOMAIN status_feed : i > LastReady /\ status_feed[i][1] = "Error"

\* C40: when the health monitor of a Ready supervisor has announced
\* Restarting for a worker that is running, then, unless the worker exits or
\* stop() or start() is called, a new process is spawned and Ready announced
\* again, or the status becomes the terminal Error.
C40_HealthFailureDecided ==
    \A ch \in Chans \ {0} :
        (/\ status = "Ready" /\ api_pc = "idle" /\ ~shutdown_requested
         /\ ipc_channel = ch /\ health_monitor = ch /\ IsProcessRunning(ch)
         /\ last_health = "unhealthy"
         /\ status_feed[Len(status_feed)][1] = "Restarting"
         /\ status_feed[Len(status_feed)][2] = "health")
        ~> (\/ shutdown_requested
            \/ api_pc # "idle" \/ last_result # "Ok"
            \/ ~worker_alive[ch]
            \/ status = "Error" \/ gave_up \/ ErrorSinceReady
            \/ nspawn > ch /\ status = "Ready")

====
